---------------------------- MODULE Spec2Model ----------------------------
(***************************************************************************)
(* Loop generator backend: the loop enumerator of backend/loop_generator.py *)
(* (find_paths_turns_dist and its helpers) and the websocket session        *)
(* dispatcher of backend/server.py with the GraphManager singleton of       *)
(* backend/graph_manager.py.                                                *)
(*                                                                          *)
(* Distances are integers (metres).  Ratios (loop_ratio_floor,              *)
(* similarity_ceiling) are pairs <<numerator, denominator>> and every       *)
(* comparison the code makes on a quotient is made by cross-multiplying.    *)
(* A visited bitmask is the set of the node ids whose bit is set.           *)
(* Node coordinates are integers in units of 1/111139 degree, so that the   *)
(* degree approximation of _is_centroid_too_close measures them in metres.  *)
(***************************************************************************)
EXTENDS Integers, Sequences, FiniteSets, TLC

VARIABLES
    \* ---- one run of find_paths_turns_dist (loop_generator.py:385-494)
    G,                  \* the graph argument
    start_node,         \* the start node argument
    params,             \* the remaining arguments, as a record
    queue,              \* the heap: a set of frontier entries
    path_masks,         \* masks of the yielded routes
    existing_centroids, \* centroids of the yielded routes, in order
    iters,              \* the iteration counter
    gen,                \* "running" | "done" | "raised"
    emitted,            \* the routes yielded so far, in order
    last,               \* what the latest loop iteration did, and to which entry
    \* ---- the server process (server.py, graph_manager.py)
    gm,                 \* the GraphManager singleton: _graph, _active_name
    files,              \* the graphs directory: name -> state of <name>.gpickle
    sess,               \* per session: position in handler(), locals, inbox, open
    sent,               \* per session: the messages sent on its websocket, in order
    log,                \* per session: the exceptions the dispatcher printed, in order
    handled,            \* per session: the messages taken from the websocket, in order
    next_id,            \* source of fresh pathSetIds (uuid4)
    writers,            \* sessions whose executor thread is writing a graph file
    \* ---- one run of _process_graph (graph_manager.py:469-503)
    prep                \* the graph being prepared and the position in the pipeline

enumVars == <<G, start_node, params, queue, path_masks, existing_centroids,
              iters, gen, emitted, last>>
serverVars == <<gm, files, sess, sent, log, handled, next_id, writers>>
prepVars == <<prep>>
vars == <<enumVars, serverVars, prepVars>>

-----------------------------------------------------------------------------
(* Bounds of the model *)

\* The iteration cap of find_paths_turns_dist (loop_generator.py:405 sets
\* 500000), scaled down so that a run can reach it.
MAX_ITERS == 16

-----------------------------------------------------------------------------
(* Small helpers *)

Max(S) == CHOOSE x \in S : \A y \in S : y <= x

Last(s) == s[Len(s)]

\* Lexicographic order on tuples of integers of the same length, the order
\* Python gives tuples.
RECURSIVE TupleLess(_, _)
TupleLess(a, b) ==
    IF Len(a) = 0 THEN FALSE
    ELSE IF a[1] # b[1] THEN a[1] < b[1]
    ELSE TupleLess(Tail(a), Tail(b))

TupleLeq(a, b) == ~TupleLess(b, a)

-----------------------------------------------------------------------------
(* Graphs.  A graph is [n, edges, pos]: nodes 0..n-1, pos[i] = <<x, y>>, and  *)
(* one record per ordered pair (u,v) that has an edge:                        *)
(*   key0    whether G[u][v] has an edge with key 0                            *)
(*   length  the 'length' attribute of G[u][v][0] (0 when it is absent)        *)
(*   name    the 'name' attribute of G[u][v][0]                                *)
(*   geo     the geodesic length of the geometry of G[u][v][0], in metres      *)

\* The values of an edge's 'name': None, a string, a list of strings.
NoName == [kind |-> "none", names |-> {}]
Str(s) == [kind |-> "str", names |-> {s}]
List(l) == [kind |-> "list", names |-> l]

HasEdge(g, u, v) == \E e \in g.edges : e.u = u /\ e.v = v

EdgeData(g, u, v) == CHOOSE e \in g.edges : e.u = u /\ e.v = v

HasKey0(g, u, v) == HasEdge(g, u, v) /\ EdgeData(g, u, v).key0

Neighbors(g, u) == {e.v : e \in {f \in g.edges : f.u = u}}

\* A two-way road: the same attributes in both directions.
Road(u, v, length, name, geo) ==
    { [u |-> u, v |-> v, key0 |-> TRUE, length |-> length, name |-> name, geo |-> geo],
      [u |-> v, v |-> u, key0 |-> TRUE, length |-> length, name |-> name, geo |-> geo] }

\* A one-way road.
OneWay(u, v, length, name, geo) ==
    { [u |-> u, v |-> v, key0 |-> TRUE, length |-> length, name |-> name, geo |-> geo] }

\* The edge u->v left without key 0 (the shortest of several parallel edges was
\* not the first one, graph_manager.py:326-333).
DropKey0(g, u, v) ==
    [g EXCEPT !.edges = {IF e.u = u /\ e.v = v THEN [e EXCEPT !.key0 = FALSE] ELSE e
                         : e \in g.edges}]

-----------------------------------------------------------------------------
(* PathNode (loop_generator.py:28-64).  An entry's chain is the sequence of   *)
(* [id, dist] from the start node to the entry's node: chain[Len] is the      *)
(* PathNode itself, chain[Len-1] its prev.                                     *)

\* PathNode.traverse of chain[i]: the ids from the start to chain[i].
Traverse(chain, i) == [k \in 1..i |-> chain[k].id]

\* PathNode.traverse_to(target_id) of the last node: walk prev until the first
\* node with that id; [found, at, path] with path the ids from there to the end.
TraverseTo(chain, target_id) ==
    LET n == Len(chain)
        hits == {j \in 1..(n - 1) : chain[j].id = target_id}
    IN  IF hits = {} THEN [found |-> FALSE, at |-> 0, path |-> <<>>]
        ELSE LET i == Max(hits)
             IN  [found |-> TRUE, at |-> i,
                  path |-> [k \in 1..(n - i + 1) |-> chain[i + k - 1].id]]

-----------------------------------------------------------------------------
(* Cost model (loop_generator.py:111-148) *)

\* _compare_edge_names without lines 116-117: a list is compared as a whole.
CompareEdgeNames_ListAsOneName(name1, name2) ==
    IF name1.kind = "none" \/ name2.kind = "none" THEN FALSE
    ELSE name1 = name2

\* _compare_edge_names: True when the names match (no turn).
CompareEdgeNames(name1, name2) ==
    IF name1.kind = "none" \/ name2.kind = "none" THEN FALSE
    ELSE (name1.names \cap name2.names) # {}

\* weight_function_turns_dist(G, u_node, v, current_turns, current_dist), with
\* u_node the last node of chain: [raise, inf, turns, dist].  raise is the
\* KeyError of G[u][v][0] at line 127, which nothing catches.
WeightFunctionTurnsDist(g, chain, v, current_turns, current_dist) ==
    LET u == Last(chain).id
        ret(t, d) == [raise |-> FALSE, inf |-> FALSE, turns |-> t, dist |-> d]
    IN  IF ~HasEdge(g, u, v)
        THEN [raise |-> FALSE, inf |-> TRUE, turns |-> current_turns, dist |-> current_dist]
        ELSE IF ~HasKey0(g, u, v)
        THEN [raise |-> TRUE, inf |-> FALSE, turns |-> current_turns, dist |-> current_dist]
        ELSE LET curr_edge == EdgeData(g, u, v)
             IN  IF Len(chain) = 1
                 THEN ret(0, current_dist + curr_edge.length)
                 ELSE LET p == chain[Len(chain) - 1].id
                      IN  IF ~HasKey0(g, p, u)
                          THEN ret(current_turns, current_dist)
                          ELSE LET prev_edge == EdgeData(g, p, u)
                                   new_dist == current_dist + curr_edge.length
                               IN  IF ~CompareEdgeNames(prev_edge.name, curr_edge.name)
                                   THEN ret(current_turns + 1, new_dist)
                                   ELSE ret(current_turns, new_dist)

-----------------------------------------------------------------------------
(* Deduplication helpers (loop_generator.py:153-271) *)

\* jaccard_similarity(set1_mask, set2_mask) > threshold, threshold = <<num, den>>.
JaccardAbove(mask1, mask2, threshold) ==
    LET intersection == Cardinality(mask1 \cap mask2)
        union == Cardinality(mask1 \cup mask2)
    IN  IF union > 0
        THEN intersection * threshold[2] > threshold[1] * union
        ELSE 0 > threshold[1]

\* _is_unique_path
IsUniquePath(mask, existing_masks, similarity_threshold) ==
    \A existing \in existing_masks : ~JaccardAbove(mask, existing, similarity_threshold)

\* The KeyError of G[u][v][0] in _sample_path_geometry (line 180) and in
\* path_to_geojson (line 363): a pair of consecutive path nodes that has an edge
\* but none with key 0.
PathKeyError(g, path) ==
    \E i \in 1..(Len(path) - 1) :
        HasEdge(g, path[i], path[i + 1]) /\ ~HasKey0(g, path[i], path[i + 1])

\* _sample_path_geometry at the 50 m interval, for edges whose geometry is
\* shorter than 50 m: two samples per edge (its two ends), none for a pair
\* without an edge or an edge shorter than 1 m.  [dist, node] in order.
RECURSIVE SamplePathGeometry(_, _, _, _)
SamplePathGeometry(g, path, i, cumulative_m) ==
    IF i >= Len(path) THEN <<>>
    ELSE LET u == path[i]
             v == path[i + 1]
         IN  IF ~HasEdge(g, u, v)
             THEN SamplePathGeometry(g, path, i + 1, cumulative_m)
             ELSE LET edge_length_m == EdgeData(g, u, v).geo
                  IN  IF edge_length_m < 1
                      THEN SamplePathGeometry(g, path, i + 1, cumulative_m)
                      ELSE << [dist |-> cumulative_m, node |-> u],
                              [dist |-> cumulative_m + edge_length_m, node |-> v] >>
                           \o SamplePathGeometry(g, path, i + 1,
                                                 cumulative_m + edge_length_m)

\* The loop of _calculate_path_centroid over the samples: a sample closer than
\* 1 m to the last kept one is skipped.  acc = [sx, sy, n, last].
RECURSIVE CentroidSum(_, _, _, _)
CentroidSum(g, samples, i, acc) ==
    IF i > Len(samples) THEN acc
    ELSE IF samples[i].dist < acc.last + 1
    THEN CentroidSum(g, samples, i + 1, acc)
    ELSE CentroidSum(g, samples, i + 1,
                     [sx |-> acc.sx + g.pos[samples[i].node][1],
                      sy |-> acc.sy + g.pos[samples[i].node][2],
                      n |-> acc.n + 1,
                      last |-> samples[i].dist])

\* _calculate_path_centroid: the mean (sx/n, sy/n), kept as [none, sx, sy, n].
CalculatePathCentroid(g, path_nodes) ==
    IF Len(path_nodes) = 0 THEN [none |-> TRUE, sx |-> 0, sy |-> 0, n |-> 0]
    ELSE LET acc == CentroidSum(g, SamplePathGeometry(g, path_nodes, 1, 0), 1,
                                [sx |-> 0, sy |-> 0, n |-> 0, last |-> -1000])
         IN  IF acc.n = 0 THEN [none |-> TRUE, sx |-> 0, sy |-> 0, n |-> 0]
             ELSE [none |-> FALSE, sx |-> acc.sx, sy |-> acc.sy, n |-> acc.n]

\* CloserThan with the threshold left unsquared.
CloserThan_ThresholdNotSquared(a, b, min_dist_m) ==
    LET dx == a.sx * b.n - b.sx * a.n
        dy == a.sy * b.n - b.sy * a.n
    IN  dx * dx + dy * dy < min_dist_m * (a.n * b.n) * (a.n * b.n)

\* d_lat*d_lat + d_lng*d_lng < threshold_sq for two centroids, both sides
\* multiplied by (a.n * b.n)^2 (coordinates are in 1/111139 degree).
CloserThan(a, b, min_dist_m) ==
    LET dx == a.sx * b.n - b.sx * a.n
        dy == a.sy * b.n - b.sy * a.n
    IN  dx * dx + dy * dy < min_dist_m * min_dist_m * (a.n * b.n) * (a.n * b.n)

\* _is_centroid_too_close
IsCentroidTooClose(centroid, existing, min_dist_m) ==
    IF centroid.none THEN FALSE
    ELSE \E k \in 1..Len(existing) : CloserThan(centroid, existing[k], min_dist_m)

\* path_to_geojson returns a feature unless no pair of consecutive nodes has an edge.
PathToGeojson(g, path) ==
    Len(path) > 0 /\ \E i \in 1..(Len(path) - 1) : HasEdge(g, path[i], path[i + 1])

\* round(total_dist * MILES_PER_METER, 3) of _create_properties, in thousandths
\* of a mile (round half to even).
MILES_PER_METER_E9 == 621371

RoundMilli(num, den) ==
    LET q == num \div den
        r == num % den
    IN  IF 2 * r > den THEN q + 1
        ELSE IF 2 * r < den THEN q
        ELSE IF q % 2 = 0 THEN q ELSE q + 1

TotalMiles(total_dist) == RoundMilli(total_dist * MILES_PER_METER_E9, 1000000)

-----------------------------------------------------------------------------
(* The graphs and arguments the enumerator is run on *)

A == Str("a")

\* A start node on a tail leading to a triangle (1,2,3), and on a second cycle
\* (0,4,5) through the start node itself.
GLollipop ==
    [n |-> 6,
     pos |-> [i \in 0..5 |-> CASE i = 0 -> <<0, 0>>   [] i = 1 -> <<40, 0>>
                               [] i = 2 -> <<60, 0>>  [] i = 3 -> <<50, 17>>
                               [] i = 4 -> <<-20, 35>> [] OTHER -> <<-40, 0>>],
     edges |-> Road(0, 1, 40, A, 40) \cup Road(1, 2, 20, A, 20)
               \cup Road(2, 3, 20, A, 20) \cup Road(3, 1, 20, A, 20)
               \cup Road(0, 4, 40, A, 40) \cup Road(4, 5, 40, A, 40)
               \cup Road(5, 0, 40, A, 40)]

\* A square with one diagonal; every kind of edge name.
GSquare ==
    [n |-> 4,
     pos |-> [i \in 0..3 |-> CASE i = 0 -> <<0, 0>>   [] i = 1 -> <<30, 0>>
                               [] i = 2 -> <<30, 30>> [] OTHER -> <<0, 30>>],
     edges |-> Road(0, 1, 30, A, 30) \cup Road(1, 2, 30, Str("b"), 30)
               \cup Road(2, 3, 30, List({"a", "b"}), 30)
               \cup Road(3, 0, 30, NoName, 30) \cup Road(0, 2, 42, A, 42)]

\* A triangle whose edges carry no 'length' (read as 0).
GZero ==
    [n |-> 3,
     pos |-> [i \in 0..2 |-> CASE i = 0 -> <<0, 0>> [] i = 1 -> <<30, 0>>
                               [] OTHER -> <<15, 26>>],
     edges |-> Road(0, 1, 0, A, 30) \cup Road(1, 2, 0, A, 30) \cup Road(2, 0, 0, A, 30)]

\* A one-way triangle 0 -> 1 -> 2 -> 0 with a two-way spur 0 - 3.
GOneWay ==
    [n |-> 4,
     pos |-> [i \in 0..3 |-> CASE i = 0 -> <<0, 0>> [] i = 1 -> <<30, 0>>
                               [] i = 2 -> <<15, 26>> [] OTHER -> <<-30, 0>>],
     edges |-> OneWay(0, 1, 30, A, 30) \cup OneWay(1, 2, 30, Str("b"), 30)
               \cup OneWay(2, 0, 30, A, 30) \cup Road(0, 3, 30, NoName, 30)]

\* A triangle (0,1,2) on one road, and a spur on another road to a triangle
\* (3,4,5) whose edges carry no 'length'.
GZeroSpur ==
    [n |-> 6,
     pos |-> [i \in 0..5 |-> CASE i = 0 -> <<0, 0>>   [] i = 1 -> <<20, 0>>
                               [] i = 2 -> <<10, 17>> [] i = 3 -> <<-40, 0>>
                               [] i = 4 -> <<-60, 0>> [] OTHER -> <<-50, 17>>],
     edges |-> Road(0, 1, 20, A, 20) \cup Road(1, 2, 20, A, 20)
               \cup Road(2, 0, 20, A, 20) \cup Road(0, 3, 40, Str("b"), 40)
               \cup Road(3, 4, 0, Str("c"), 20) \cup Road(4, 5, 0, Str("c"), 20)
               \cup Road(5, 3, 0, Str("c"), 20)]

\* Two one-way triangles through node 0: a short one (0,1,2) that closes
\* below min_path_length = 60, and a long one (0,3,4).
GBowtie ==
    [n |-> 5,
     pos |-> [i \in 0..4 |-> CASE i = 0 -> <<0, 0>>   [] i = 1 -> <<10, 0>>
                               [] i = 2 -> <<5, 9>>    [] i = 3 -> <<-30, 0>>
                               [] OTHER -> <<-15, -26>>],
     edges |-> OneWay(0, 1, 10, A, 10) \cup OneWay(1, 2, 10, A, 10)
               \cup OneWay(2, 0, 10, A, 10) \cup OneWay(0, 3, 30, A, 30)
               \cup OneWay(3, 4, 30, A, 30) \cup OneWay(4, 0, 30, A, 30)]

Graphs ==
    { GLollipop, GSquare, GZero, GZeroSpur, GOneWay, GBowtie,
      DropKey0(GSquare, 1, 2),      \* KeyError when node 1 is extended
      DropKey0(GLollipop, 1, 0) }   \* KeyError when a route through 1 is sampled

StartNodes(g) == {0, g.n - 1}

Deduplications == {"centroid", "jaccard", "none"}

\* The arguments of find_paths_turns_dist other than G and start_node.
Params ==
    [min_path_length : {0, 60},
     max_path_length : {120, 200},
     loop_ratio_floor : {<<0, 1>>, <<1, 2>>},
     similarity_ceiling : {<<7, 10>>},
     min_loop_length : {0, 50},
     deduplication : Deduplications,
     min_dist_m : {0, 10}]

-----------------------------------------------------------------------------
(* find_paths_turns_dist (loop_generator.py:385-494) *)

\* The heap key (turns, distance, node_id) of an entry.
Key(e) == <<e.turns, e.dist, Last(e.chain).id>>

\* Heads with the heap keyed on distance alone.
Heads_ByDistance(q) ==
    {e \in q : \A f \in q : ~TupleLess(<<f.dist, Last(f.chain).id>>,
                                          <<e.dist, Last(e.chain).id>>)}

\* The entries heappop may return: those of least key.  Entries of equal key
\* compare by PathNode.__lt__, which is False both ways on equal dist, so which
\* of them the heap holds first is left open.
Heads(q) == {e \in q : \A f \in q : ~TupleLess(Key(f), Key(e))}

NoEntry == [turns |-> 0, dist |-> 0, chain |-> <<>>, mask |-> {}]

\* Lines 423: the popped entry closes a loop and is long enough.
IsCandidate(e) ==
    Last(e.chain).id \in e.mask /\ e.dist >= params.min_path_length

\* Recon with loop_dist taken as the whole popped distance.
Recon_LoopDistWhole(e) ==
    LET tt == TraverseTo(e.chain, Last(e.chain).id)
        loop_start == IF tt.found THEN e.chain[tt.at] ELSE [id |-> 0, dist |-> 0]
        loop_dist == e.dist
    IN  [found |-> tt.found,
         loop_start_id |-> loop_start.id,
         loop_start_dist |-> loop_start.dist,
         loop_dist |-> loop_dist,
         total_dist |-> 2 * loop_start.dist + loop_dist,
         path |-> IF tt.found THEN tt.path \o Traverse(e.chain, tt.at) ELSE <<>>]

\* Lines 426-442, 450: the reconstruction of a candidate.
Recon(e) ==
    LET tt == TraverseTo(e.chain, Last(e.chain).id)
        loop_start == IF tt.found THEN e.chain[tt.at] ELSE [id |-> 0, dist |-> 0]
        loop_dist == e.dist - loop_start.dist
    IN  [found |-> tt.found,
         loop_start_id |-> loop_start.id,
         loop_start_dist |-> loop_start.dist,
         loop_dist |-> loop_dist,
         total_dist |-> 2 * loop_start.dist + loop_dist,
         path |-> IF tt.found THEN tt.path \o Traverse(e.chain, tt.at) ELSE <<>>]

\* Outcome without the loop ratio filter.
Outcome_NoRatioFilter(e) ==
    LET r == Recon(e)
    IN  IF ~r.found THEN "no_reconstruction"
        ELSE IF r.loop_dist < params.min_loop_length THEN "loop_too_short"
        ELSE IF r.total_dist = 0 THEN "ZeroDivisionError"
        ELSE IF e.mask \in path_masks THEN "mask_duplicate"
        ELSE IF params.deduplication = "centroid" /\ PathKeyError(G, r.path)
             THEN "KeyError"
        ELSE IF params.deduplication = "centroid"
                /\ IsCentroidTooClose(CalculatePathCentroid(G, r.path),
                                      existing_centroids, params.min_dist_m)
             THEN "centroid_too_close"
        ELSE IF params.deduplication = "jaccard"
                /\ ~IsUniquePath(e.mask, path_masks, params.similarity_ceiling)
             THEN "jaccard_too_high"
        ELSE IF PathKeyError(G, r.path) THEN "KeyError"
        ELSE IF ~PathToGeojson(G, r.path) THEN "no_feature"
        ELSE "yield"

\* Outcome without the exact-mask test.
Outcome_NoMaskTest(e) ==
    LET r == Recon(e)
    IN  IF ~r.found THEN "no_reconstruction"
        ELSE IF r.loop_dist < params.min_loop_length THEN "loop_too_short"
        ELSE IF r.total_dist = 0 THEN "ZeroDivisionError"
        ELSE IF r.loop_dist * params.loop_ratio_floor[2]
                  < params.loop_ratio_floor[1] * r.total_dist THEN "ratio_too_low"
        ELSE IF params.deduplication = "centroid" /\ PathKeyError(G, r.path)
             THEN "KeyError"
        ELSE IF params.deduplication = "centroid"
                /\ IsCentroidTooClose(CalculatePathCentroid(G, r.path),
                                      existing_centroids, params.min_dist_m)
             THEN "centroid_too_close"
        ELSE IF params.deduplication = "jaccard"
                /\ ~IsUniquePath(e.mask, path_masks, params.similarity_ceiling)
             THEN "jaccard_too_high"
        ELSE IF PathKeyError(G, r.path) THEN "KeyError"
        ELSE IF ~PathToGeojson(G, r.path) THEN "no_feature"
        ELSE "yield"

\* Lines 426-471: what becomes of a candidate, the checks in the code's order.
Outcome(e) ==
    LET r == Recon(e)
    IN  IF ~r.found THEN "no_reconstruction"
        ELSE IF r.loop_dist < params.min_loop_length THEN "loop_too_short"
        ELSE IF r.total_dist = 0 THEN "ZeroDivisionError"
        ELSE IF r.loop_dist * params.loop_ratio_floor[2]
                  < params.loop_ratio_floor[1] * r.total_dist THEN "ratio_too_low"
        ELSE IF e.mask \in path_masks THEN "mask_duplicate"
        ELSE IF params.deduplication = "centroid" /\ PathKeyError(G, r.path)
             THEN "KeyError"
        ELSE IF params.deduplication = "centroid"
                /\ IsCentroidTooClose(CalculatePathCentroid(G, r.path),
                                      existing_centroids, params.min_dist_m)
             THEN "centroid_too_close"
        ELSE IF params.deduplication = "jaccard"
                /\ ~IsUniquePath(e.mask, path_masks, params.similarity_ceiling)
             THEN "jaccard_too_high"
        ELSE IF PathKeyError(G, r.path) THEN "KeyError"
        ELSE IF ~PathToGeojson(G, r.path) THEN "no_feature"
        ELSE "yield"

Raises == {"ZeroDivisionError", "KeyError"}

\* Lines 465-469: the yielded feature, as the values its properties are made of.
Route(e) ==
    LET r == Recon(e)
    IN  [turns |-> e.turns,
         dist |-> e.dist,
         visited |-> e.mask,
         loop_start |-> r.loop_start_id,
         loop_start_dist |-> r.loop_start_dist,
         loop_dist |-> r.loop_dist,
         total_dist |-> r.total_dist,
         total_miles |-> TotalMiles(r.total_dist),
         path |-> r.path,
         centroid |-> IF params.deduplication = "centroid"
                      THEN CalculatePathCentroid(G, r.path)
                      ELSE [none |-> TRUE, sx |-> 0, sy |-> 0, n |-> 0]]

\* Line 482 alone: every neighbour, the one just left included.
Extensions_WithBacktrack(e) == Neighbors(G, Last(e.chain).id)

\* Lines 482-484: the neighbours an entry is extended to.
Extensions(e) ==
    LET curr == Last(e.chain).id
    IN  {v \in Neighbors(G, curr) :
            ~(Len(e.chain) > 1 /\ v = e.chain[Len(e.chain) - 1].id)}

\* Lines 486-494: the entry pushed for neighbour v.
Child(e, v) ==
    LET w == WeightFunctionTurnsDist(G, e.chain, v, e.turns, e.dist)
    IN  [turns |-> w.turns,
         dist |-> w.dist,
         chain |-> Append(e.chain, [id |-> v, dist |-> w.dist]),
         mask |-> e.mask \cup {Last(e.chain).id}]

ExtensionRaises(e) ==
    \E v \in Extensions(e) :
        WeightFunctionTurnsDist(G, e.chain, v, e.turns, e.dist).raise

Did(kind, e) == [kind |-> kind, entry |-> e]

\* Line 406: the queue is empty, the generator returns.
QueueEmpty ==
    /\ gen = "running"
    /\ queue = {}
    /\ gen' = "done"
    /\ last' = Did("empty", NoEntry)
    /\ UNCHANGED <<serverVars, prepVars>>
    /\ UNCHANGED <<G, start_node, params, queue, path_masks, existing_centroids,
                   iters, emitted>>

\* Lines 407-410: the iteration cap.
CapReached ==
    /\ gen = "running"
    /\ queue # {}
    /\ iters + 1 > MAX_ITERS
    /\ iters' = iters + 1
    /\ gen' = "done"
    /\ last' = Did("cap", NoEntry)
    /\ UNCHANGED <<serverVars, prepVars>>
    /\ UNCHANGED <<G, start_node, params, queue, path_masks, existing_centroids,
                   emitted>>

\* Pops with the cap tested as iters >= MAX_ITERS + 1 before the increment.
Pops_CapOffByOne(e) ==
    /\ gen = "running"
    /\ queue # {}
    /\ iters <= MAX_ITERS
    /\ e \in Heads(queue)
    /\ iters' = iters + 1

\* Lines 407-412: one more iteration pops entry e.
Pops(e) ==
    /\ gen = "running"
    /\ queue # {}
    /\ iters + 1 <= MAX_ITERS
    /\ e \in Heads(queue)
    /\ iters' = iters + 1

\* Lines 419-420.
PopTooLong ==
    \E e \in queue :
        /\ Pops(e)
        /\ e.dist > params.max_path_length
        /\ queue' = queue \ {e}
        /\ last' = Did("too_long", e)
        /\ UNCHANGED <<serverVars, prepVars>>
        /\ UNCHANGED <<G, start_node, params, path_masks, existing_centroids,
                       gen, emitted>>

\* Lines 423-460, 471-477: a candidate that fails a filter.
PopDiscard ==
    \E e \in queue :
        /\ Pops(e)
        /\ e.dist <= params.max_path_length
        /\ IsCandidate(e)
        /\ Outcome(e) \notin Raises \cup {"yield"}
        /\ queue' = queue \ {e}
        /\ last' = Did(Outcome(e), e)
        /\ UNCHANGED <<serverVars, prepVars>>
        /\ UNCHANGED <<G, start_node, params, path_masks, existing_centroids,
                       gen, emitted>>

\* Lines 438, 453, 466, 469: an exception ends the generator.
PopCandidateRaises ==
    \E e \in queue :
        /\ Pops(e)
        /\ e.dist <= params.max_path_length
        /\ IsCandidate(e)
        /\ Outcome(e) \in Raises
        /\ queue' = queue \ {e}
        /\ gen' = "raised"
        /\ last' = Did(Outcome(e), e)
        /\ UNCHANGED <<serverVars, prepVars>>
        /\ UNCHANGED <<G, start_node, params, path_masks, existing_centroids,
                       emitted>>

\* Lines 462-477: a candidate that passes every filter is recorded and yielded.
PopYield ==
    \E e \in queue :
        /\ Pops(e)
        /\ e.dist <= params.max_path_length
        /\ IsCandidate(e)
        /\ Outcome(e) = "yield"
        /\ queue' = queue \ {e}
        /\ path_masks' = path_masks \cup {e.mask}
        /\ existing_centroids' =
              IF Route(e).centroid.none THEN existing_centroids
              ELSE Append(existing_centroids, Route(e).centroid)
        /\ emitted' = Append(emitted, Route(e))
        /\ last' = Did("yield", e)
        /\ UNCHANGED <<serverVars, prepVars>>
        /\ UNCHANGED <<G, start_node, params, gen>>

\* Lines 479-494: the entry is extended to its neighbours.  (An (inf, inf)
\* entry is never pushed: G.neighbors yields only nodes that have an edge.)
PopExpand ==
    \E e \in queue :
        /\ Pops(e)
        /\ e.dist <= params.max_path_length
        /\ ~IsCandidate(e)
        /\ ~ExtensionRaises(e)
        /\ queue' = (queue \ {e}) \cup {Child(e, v) : v \in Extensions(e)}
        /\ last' = Did("expand", e)
        /\ UNCHANGED <<serverVars, prepVars>>
        /\ UNCHANGED <<G, start_node, params, path_masks, existing_centroids,
                       gen, emitted>>

\* Line 127: G[u][v][0] raises KeyError while the entry is extended.
PopExpandRaises ==
    \E e \in queue :
        /\ Pops(e)
        /\ e.dist <= params.max_path_length
        /\ ~IsCandidate(e)
        /\ ExtensionRaises(e)
        /\ queue' = queue \ {e}
        /\ gen' = "raised"
        /\ last' = Did("KeyError", e)
        /\ UNCHANGED <<serverVars, prepVars>>
        /\ UNCHANGED <<G, start_node, params, path_masks, existing_centroids,
                       emitted>>

\* Lines 398-404: the state when the generator is first advanced.
InitEnum ==
    /\ G \in Graphs
    /\ start_node \in StartNodes(G)
    /\ params \in Params
    /\ queue = {[turns |-> 0, dist |-> 0,
                 chain |-> <<[id |-> start_node, dist |-> 0]>>, mask |-> {}]}
    /\ path_masks = {}
    /\ existing_centroids = <<>>
    /\ iters = 0
    /\ gen = "running"
    /\ emitted = <<>>
    /\ last = Did("init", NoEntry)


\* The preparation pipeline while the enumerator or the server is studied.
PrepOff == prep = [pc |-> "off"]

\* The server variables while only the enumerator is studied.
ServerOff ==
    /\ gm = [graph |-> "none", active_name |-> "none"]
    /\ files = <<>>
    /\ sess = <<>>
    /\ sent = <<>>
    /\ log = <<>>
    /\ handled = <<>>
    /\ next_id = 0
    /\ writers = {}

Init == InitEnum /\ ServerOff /\ PrepOff

Next ==
    \/ QueueEmpty
    \/ CapReached
    \/ PopTooLong
    \/ PopDiscard
    \/ PopCandidateRaises
    \/ PopYield
    \/ PopExpand
    \/ PopExpandRaises

\* One enumeration, pulled to exhaustion.
Spec == Init /\ [][Next]_vars

-----------------------------------------------------------------------------
(* Properties of the enumerator *)

Emitted == 1..Len(emitted)

\* C1: over the routes emitted by one enumeration, the search cost
\* (turns, distance) at which the accepted candidate was popped is
\* lexicographically non-decreasing.
C1_PopCostNonDecreasing ==
    \A i \in Emitted : \A j \in Emitted :
        i < j => TupleLeq(<<emitted[i].turns, emitted[i].dist>>,
                          <<emitted[j].turns, emitted[j].dist>>)

\* Two routes emitted at different turn counts, and two at different distances.
C1_Witness ==
    /\ Len(emitted) >= 3
    /\ \E i \in Emitted : emitted[i].turns < emitted[Len(emitted)].turns
    /\ \E i \in Emitted : \E j \in Emitted :
          emitted[i].turns = emitted[j].turns /\ emitted[i].dist < emitted[j].dist

\* C2 as stated: the reported pair (turns, total_miles) is lexicographically
\* non-decreasing over the emitted routes.
C2_ReportedPairNonDecreasing ==
    \A i \in Emitted : \A j \in Emitted :
        i < j => TupleLeq(<<emitted[i].turns, emitted[i].total_miles>>,
                          <<emitted[j].turns, emitted[j].total_miles>>)

\* C2 amended: the pair (turns, total route distance minus the out-leg
\* dist(L)), that is (turns, dist(L) + loop_dist), is non-decreasing.
C2_TurnsAndTotalLessOutLeg ==
    \A i \in Emitted : \A j \in Emitted :
        i < j =>
          TupleLeq(<<emitted[i].turns, emitted[i].total_dist - emitted[i].loop_start_dist>>,
                   <<emitted[j].turns, emitted[j].total_dist - emitted[j].loop_start_dist>>)

\* A route whose loop starts away from the start node is followed by a route
\* of the same turns and a smaller total distance.
C2_Witness ==
    \E i \in Emitted : \E j \in Emitted :
        /\ i < j
        /\ emitted[i].loop_start_dist > 0
        /\ emitted[i].turns = emitted[j].turns
        /\ emitted[i].total_miles > emitted[j].total_miles

\* The filters of C3 on a popped entry e that closes a loop.
FailsFilter(e) ==
    LET r == Recon(e)
    IN  \/ r.loop_dist < params.min_loop_length
        \/ r.loop_dist * params.loop_ratio_floor[2]
             < params.loop_ratio_floor[1] * r.total_dist

\* C3: every emitted route was popped at distance >= min_path_length, has
\* loop_dist >= min_loop_length and loop_dist / total_dist >= loop_ratio_floor;
\* a step that pops a candidate failing a filter yields nothing and records
\* neither a mask nor a centroid.
C3_FiltersHold ==
    /\ [](\A i \in Emitted :
            /\ emitted[i].dist >= params.min_path_length
            /\ emitted[i].loop_dist >= params.min_loop_length
            /\ emitted[i].loop_dist * params.loop_ratio_floor[2]
                 >= params.loop_ratio_floor[1] * emitted[i].total_dist)
    /\ [][\A e \in queue :
            (e \notin queue' /\ IsCandidate(e) /\ FailsFilter(e))
              => /\ emitted' = emitted
                 /\ path_masks' = path_masks
                 /\ existing_centroids' = existing_centroids]_vars

\* A candidate was discarded for its loop ratio after a route was emitted.
C3_Witness ==
    /\ last.kind = "ratio_too_low"
    /\ params.min_path_length > 0
    /\ Len(emitted) >= 1

\* C4 as stated: every emitted route's total distance lies within
\* [min_path_length, max_path_length].
C4_TotalWithinWindow ==
    \A i \in Emitted :
        /\ emitted[i].total_dist >= params.min_path_length
        /\ emitted[i].total_dist <= params.max_path_length

\* C5: no two emitted routes carry the same visited mask, and the accepted
\* masks are exactly the masks of the emitted routes.
C5_MasksUnique ==
    /\ \A i \in Emitted : \A j \in Emitted :
          i # j => emitted[i].visited # emitted[j].visited
    /\ path_masks = {emitted[i].visited : i \in Emitted}

\* A candidate carrying the mask of an emitted route was discarded.
C5_Witness ==
    /\ last.kind = "mask_duplicate"
    /\ \E i \in Emitted : emitted[i].visited = last.entry.mask

\* The squared distance between two centroids a and b (means sx/n, sy/n) is
\* at least d squared.
ApartAtLeast(a, b, d) ==
    (a.sx * b.n - b.sx * a.n) * (a.sx * b.n - b.sx * a.n)
      + (a.sy * b.n - b.sy * a.n) * (a.sy * b.n - b.sy * a.n)
        >= d * d * (a.n * b.n) * (a.n * b.n)

\* C6: in centroid mode the centroids of any two emitted routes are at least
\* min_dist_m apart (degree approximation).
C6_CentroidsApart ==
    params.deduplication = "centroid" =>
        \A i \in Emitted : \A j \in Emitted :
            (i # j /\ ~emitted[i].centroid.none /\ ~emitted[j].centroid.none)
              => ApartAtLeast(emitted[i].centroid, emitted[j].centroid,
                              params.min_dist_m)

\* A candidate was discarded as too close to an earlier route, and two routes
\* far enough apart were emitted.
C6_Witness ==
    /\ params.deduplication = "centroid"
    /\ params.min_dist_m > 0
    /\ last.kind = "centroid_too_close"
    /\ Len(emitted) >= 2

\* C7: an enumeration makes at most MAX_ITERS pops; the iteration that finds
\* the cap exceeded pops and yields nothing and ends the generator without an
\* exception; an enumeration pulled to exhaustion ends, since every iteration
\* either ends the generator or advances the counter iters, which never
\* passes MAX_ITERS + 1.
C7_CappedAndTerminates ==
    [][/\ gen = "running"
       /\ iters' <= MAX_ITERS + 1
       /\ queue' # queue => iters' <= MAX_ITERS
       /\ iters' > MAX_ITERS
            => (queue' = queue /\ emitted' = emitted /\ gen' = "done")
       /\ (iters' = iters + 1 \/ gen' # "running")]_vars

\* The cap ended an enumeration that had yielded a route and still had entries.
C7_Witness ==
    /\ last.kind = "cap"
    /\ gen = "done"
    /\ queue # {}
    /\ Len(emitted) >= 1

-----------------------------------------------------------------------------
(* The server: server.py and the GraphManager singleton of graph_manager.py. *)
(* One asyncio event loop runs every session's handler(); a handler runs     *)
(* until it awaits (a websocket send, asyncio.sleep(0), run_in_executor),    *)
(* and only there another session's handler can run.  Each action below is   *)
(* the code between two suspension points.                                   *)

Sessions == {1, 2}

\* Messages the clients send in one run, over all sessions.
MaxMsgs == 2

\* Messages a websocket holds that handler() has not taken yet.
MaxInbox == 1

\* Routes one enumeration yields at most.
MaxRoutes == 2

\* Clients that close their channel in one run.
MaxCloses == 1

\* server.py:12
DEFAULT_GRAPH == "avl_20mi"

\* The graph names of the graphs directory, as list_graphs sorts them.
NamesSorted == <<DEFAULT_GRAPH, "other">>

Names == {NamesSorted[i] : i \in 1..Len(NamesSorted)}

\* The values of num_paths the clients send.
NumPaths == {0, 1, 2}

\* ---- the graphs directory ------------------------------------------------

\* The state of <name>.gpickle: absent, not unpicklable (truncated by an
\* open(path, 'wb') whose dump has not finished, or damaged), or a pickled
\* graph: whether it has nodes, whether its nodes carry 'elevation', whether
\* every adjacent pair has an edge with key 0.
Absent == [kind |-> "absent", nodes |-> FALSE, elevation |-> FALSE, key0 |-> FALSE]

Unreadable == [kind |-> "unreadable", nodes |-> FALSE, elevation |-> FALSE, key0 |-> FALSE]

Pickled(nodes, elevation, key0) ==
    [kind |-> "graph", nodes |-> nodes, elevation |-> elevation, key0 |-> key0]

Good == Pickled(TRUE, TRUE, TRUE)

Old == Pickled(TRUE, FALSE, TRUE)

NoKey0 == Pickled(TRUE, TRUE, FALSE)

Empty == Pickled(FALSE, TRUE, TRUE)

\* A graph object in memory, with the name of the file it was loaded from;
\* NoGraph is None.
NoGraph == [name |-> "none", nodes |-> FALSE, elevation |-> FALSE, key0 |-> FALSE]

Loaded(name, c) ==
    [name |-> name, nodes |-> c.nodes, elevation |-> c.elevation, key0 |-> c.key0]

\* GraphManager.__new__: _graph = None, _active_name = None.
GM0 == [graph |-> NoGraph, active_name |-> "none"]

\* What the elevation migration of load_graph can do: finish, fail while
\* reading SRTM data, fail while re-saving the file it has opened for writing.
MigrationOutcomes == {"ok", "elevation_fails", "write_fails"}

\* GraphManager.load_graph on an existing file: the new singleton state, the
\* new directory, and the exception it re-raises ("none" when it returns).
LoadGraph(m, dir, name, mig) ==
    LET c == dir[name]
        g0 == Loaded(name, c)
        g1 == [g0 EXCEPT !.elevation = TRUE]
    IN  IF c.kind # "graph"
        THEN [gm |-> m, files |-> dir, exc |-> "UnpicklingError"]
        ELSE IF ~c.nodes
        THEN [gm |-> [graph |-> g0, active_name |-> name], files |-> dir,
              exc |-> "StopIteration"]
        ELSE IF c.elevation
        THEN [gm |-> [graph |-> g0, active_name |-> name], files |-> dir,
              exc |-> "none"]
        ELSE IF mig = "elevation_fails"
        THEN [gm |-> [graph |-> g0, active_name |-> name], files |-> dir,
              exc |-> "Exception"]
        ELSE IF mig = "write_fails"
        THEN [gm |-> [graph |-> g1, active_name |-> name],
              files |-> [dir EXCEPT ![name] = Unreadable], exc |-> "OSError"]
        ELSE [gm |-> [graph |-> g1, active_name |-> name],
              files |-> [dir EXCEPT ![name] = [c EXCEPT !.elevation = TRUE]],
              exc |-> "none"]

\* GraphManager.switch_graph.
SwitchGraph(m, dir, name, mig) ==
    IF dir[name].kind = "absent"
    THEN [gm |-> m, files |-> dir, exc |-> "FileNotFoundError"]
    ELSE LoadGraph(m, dir, name, mig)

\* GraphManager.list_graphs, as a set.
ListGraphs(dir) == {n \in Names : dir[n].kind # "absent"}

\* main(): load the default graph, else the first graph listed, else none.
Main(dir, mig) ==
    IF dir[DEFAULT_GRAPH].kind # "absent"
    THEN LoadGraph(GM0, dir, DEFAULT_GRAPH, mig)
    ELSE IF ListGraphs(dir) # {}
    THEN SwitchGraph(GM0, dir,
             NamesSorted[CHOOSE i \in 1..Len(NamesSorted) :
                 /\ NamesSorted[i] \in ListGraphs(dir)
                 /\ \A j \in 1..(i - 1) : NamesSorted[j] \notin ListGraphs(dir)],
             mig)
    ELSE [gm |-> GM0, files |-> dir, exc |-> "none"]

\* The graphs directories the server is started on.
InitialDirs ==
    {[n \in Names |-> IF n = DEFAULT_GRAPH THEN Good ELSE o] :
        o \in {Absent, Good, Old, NoKey0, Empty, Unreadable}}
    \cup {[n \in Names |-> IF n = DEFAULT_GRAPH THEN Absent ELSE o] :
        o \in {Absent, Old}}

\* ---- messages ------------------------------------------------------------

\* A client message.  fields says what the type-specific fields hold:
\*   START_GENERATION  "no_lat_lng" | "bad_params" (a parameter that is not a
\*                     number, e.g. null) | "ok"
\*   GET_NODES_*       "missing" | "invalid" (not a list of pairs) | "ok"
\* A CREATE_GRAPH message carries its boundary fields in payload.
\* "malformed" is text that is not JSON, "non_object" JSON that is no object.
\* The boundary fields of a CREATE_GRAPH message: the number of coordinate
\* pairs (-1 when the field is absent), whether center_lat and center_lng are
\* present, radius_miles when present, and the box bounds that are present.
Bounds4 == {"south", "west", "north", "east"}

Payload(coordinates, center_lat, center_lng, has_radius, radius_miles, bounds) ==
    [coordinates |-> coordinates, center_lat |-> center_lat,
     center_lng |-> center_lng, has_radius |-> has_radius,
     radius_miles |-> radius_miles, bounds |-> bounds]

NoPayload == Payload(-1, FALSE, FALSE, FALSE, 0, {})

Polygon(n) == Payload(n, FALSE, FALSE, FALSE, 0, {})

Circle(lat, lng, has_radius, radius) == Payload(-1, lat, lng, has_radius, radius, {})

Box(bounds) == Payload(-1, FALSE, FALSE, FALSE, 0, bounds)

ClientMsg(type, name, fields, boundary_type, num_paths) ==
    [type |-> type, name |-> name, fields |-> fields,
     boundary_type |-> boundary_type, num_paths |-> num_paths,
     payload |-> NoPayload]

CreateMsg(name, boundary_type, payload) ==
    [type |-> "CREATE_GRAPH", name |-> name, fields |-> "none",
     boundary_type |-> boundary_type, num_paths |-> 0, payload |-> payload]

\* server.py:100-128: what the validation of handle_create_graph finds wrong
\* with the boundary ("none" when it passes).
BoundaryProblem_RadiusZeroPasses(m) ==
    IF m.boundary_type = "polygon"
    THEN IF m.payload.coordinates < 3
         THEN "Polygon requires at least 3 coordinate pairs" ELSE "none"
    ELSE IF m.boundary_type = "circle"
    THEN IF \/ ~m.payload.center_lat
            \/ ~m.payload.center_lng
            \/ ~m.payload.has_radius
            \/ m.payload.radius_miles < 0
         THEN "Circle requires center_lat, center_lng, and positive radius_miles"
         ELSE "none"
    ELSE IF m.payload.bounds # Bounds4
         THEN "Missing required fields: south, west, north, east" ELSE "none"

BoundaryProblem(m) ==
    IF m.boundary_type = "polygon"
    THEN IF m.payload.coordinates < 3
         THEN "Polygon requires at least 3 coordinate pairs" ELSE "none"
    ELSE IF m.boundary_type = "circle"
    THEN IF \/ ~m.payload.center_lat
            \/ ~m.payload.center_lng
            \/ ~m.payload.has_radius
            \/ m.payload.radius_miles <= 0
         THEN "Circle requires center_lat, center_lng, and positive radius_miles"
         ELSE "none"
    ELSE IF m.payload.bounds # Bounds4
         THEN "Missing required fields: south, west, north, east" ELSE "none"

NoMsg == ClientMsg("none", "none", "none", "none", 0)

ClientMessages ==
    {ClientMsg("START_GENERATION", "none", "ok", "none", n) : n \in NumPaths}
    \cup {ClientMsg("START_GENERATION", "none", f, "none", 2) :
            f \in {"no_lat_lng", "bad_params"}}
    \cup {ClientMsg("SWITCH_GRAPH", n, "none", "none", 0) : n \in Names \cup {"none"}}
    \cup {ClientMsg("LIST_GRAPHS", "none", "none", "none", 0)}
    \cup {ClientMsg(t, "none", f, "none", 0) :
            t \in {"GET_NODES_IN_REGION", "GET_NODES_NEAR_POLYLINE"},
            f \in {"missing", "invalid", "ok"}}
    \cup {CreateMsg("none", "box", Box(Bounds4)),
          CreateMsg("other", "polygon", Polygon(2)),
          CreateMsg("other", "circle", Circle(TRUE, TRUE, TRUE, 0)),
          CreateMsg("other", "box", Box(Bounds4 \ {"south"})),
          CreateMsg("other", "box", Box(Bounds4))}
    \cup {ClientMsg(t, "none", "none", "none", 0) :
            t \in {"UNKNOWN", "malformed", "non_object"}}

\* A server message: type, pathSetId (0 when the type has none), the index of
\* the route among those its enumeration yielded, name / active, graphs, error.
ServerMsg(type, id, k, name, graphs, error) ==
    [type |-> type, pathSetId |-> id, k |-> k, name |-> name,
     graphs |-> graphs, error |-> error]

GraphsList == ServerMsg("GRAPHS_LIST", 0, 0, gm.active_name, ListGraphs(files), "none")

GraphCreateError(e) == ServerMsg("GRAPH_CREATE_ERROR", 0, 0, "none", {}, e)

\* What the dispatcher prints for an exception it catches (server.py:46-51).
Err(e, m) == [exc |-> e, type |-> m.type]

\* ---- sessions ------------------------------------------------------------

\* pc is the suspension point handler() is at:
\*   "new"          connected, handler() not started
\*   "idle"         in `async for message in websocket`
\*   "gen_created"  after the PATHSET_CREATED send (line 189)
\*   "gen_sent"     after a PATH_RECEIVED send and sleep(0) (lines 230-231)
\*   "creating"     GRAPH_CREATING sent, the executor not started (line 139)
\*   "writing"      the executor has opened <name>.gpickle for writing
\*   "written"      the executor is done, the handler not resumed
\*   "created"      after the GRAPH_CREATED send (line 157)
\*   "ended"        handler() has returned
NewSession ==
    [pc |-> "new", inbox |-> <<>>, cur |-> NoMsg, open |-> TRUE,
     path_set_id |-> 0, start |-> NoGraph, G |-> NoGraph,
     count |-> 0, produced |-> 0]

\* Back in the message loop: the handler's locals are gone.
Idle(r) ==
    [r EXCEPT !.pc = "idle", !.cur = NoMsg, !.path_set_id = 0,
              !.start = NoGraph, !.G = NoGraph, !.count = 0, !.produced = 0]

RECURSIVE Arrived(_)
Arrived(S) ==
    IF S = {} THEN 0
    ELSE LET s == CHOOSE x \in S : TRUE
         IN  Len(handled[s]) + Len(sess[s].inbox) + Arrived(S \ {s})

\* The session's record, what is sent on its websocket, what is printed.
Update(s, r, out, errs) ==
    /\ sess' = [sess EXCEPT ![s] = r]
    /\ sent' = [sent EXCEPT ![s] = @ \o out]
    /\ log' = [log EXCEPT ![s] = @ \o errs]

\* `await websocket.send(msg)` where the handler goes on as r afterwards: on
\* an open channel the message goes out; on a closed one send raises
\* ConnectionClosed, which no handler catches for good (the except clause of
\* handle_create_graph sends again), so the dispatcher prints it and takes
\* the next message.
Reply_IgnoresClosed(s, r, msg) ==
    Update(s, r, <<msg>>, <<>>)

Reply(s, r, msg) ==
    IF sess[s].open
    THEN Update(s, r, <<msg>>, <<>>)
    ELSE Update(s, Idle(r), <<>>, <<Err("ConnectionClosed", r.cur)>>)

\* The same for the last send of a handler, which then returns.
ReplyDone(s, r, msg) ==
    IF sess[s].open
    THEN Update(s, Idle(r), <<msg>>, <<>>)
    ELSE Update(s, Idle(r), <<>>, <<Err("ConnectionClosed", r.cur)>>)

\* An exception reaches the dispatcher's `except Exception` (lines 48-51).
Caught(s, r, e) == Update(s, Idle(r), <<>>, <<Err(e, r.cur)>>)

\* handler() is in the message loop and the next message has this type.
Waiting(s, type) ==
    /\ sess[s].pc = "idle"
    /\ sess[s].inbox # <<>>
    /\ Head(sess[s].inbox).type = type

\* Lines 25-29: the message is taken off the websocket.
Taken(s) == [sess[s] EXCEPT !.inbox = Tail(@), !.cur = Head(sess[s].inbox)]

Take(s) == handled' = [handled EXCEPT ![s] = Append(@, Head(sess[s].inbox))]

\* ---- the clients ---------------------------------------------------------

ClientSends(s, m) ==
    /\ sess[s].pc \notin {"new", "ended"}
    /\ sess[s].open
    /\ Len(sess[s].inbox) < MaxInbox
    /\ Arrived(Sessions) < MaxMsgs
    /\ sess' = [sess EXCEPT ![s].inbox = Append(@, m)]
    /\ UNCHANGED <<gm, files, sent, log, handled, next_id, writers, enumVars, prepVars>>

ClientCloses(s) ==
    /\ sess[s].pc # "ended"
    /\ sess[s].open
    /\ Cardinality({t \in Sessions : ~sess[t].open}) < MaxCloses
    /\ sess' = [sess EXCEPT ![s].open = FALSE]
    /\ UNCHANGED <<gm, files, sent, log, handled, next_id, writers, enumVars, prepVars>>

\* ---- handler() -----------------------------------------------------------

\* Lines 18-22: handler() starts and sends the graphs list, outside the try.
Connect(s) ==
    /\ sess[s].pc = "new"
    /\ IF sess[s].open
       THEN Update(s, [sess[s] EXCEPT !.pc = "idle"], <<GraphsList>>, <<>>)
       ELSE Update(s, [sess[s] EXCEPT !.pc = "ended"], <<>>, <<>>)
    /\ UNCHANGED <<gm, files, handled, next_id, writers, enumVars, prepVars>>

\* Lines 25, 53-54: the iteration over a closed websocket ends handler().
Disconnected(s) ==
    /\ sess[s].pc = "idle"
    /\ ~sess[s].open
    /\ sess' = [sess EXCEPT ![s].pc = "ended"]
    /\ UNCHANGED <<gm, files, sent, log, handled, next_id, writers, enumVars, prepVars>>

\* Lines 27, 46-47: json.loads fails.
RecvMalformed(s) ==
    /\ Waiting(s, "malformed")
    /\ Take(s)
    /\ Caught(s, Taken(s), "JSONDecodeError")
    /\ UNCHANGED <<gm, files, next_id, writers, enumVars, prepVars>>

\* Lines 28, 48-51: data is no dict, data.get raises AttributeError.
RecvNonObject(s) ==
    /\ Waiting(s, "non_object")
    /\ Take(s)
    /\ Caught(s, Taken(s), "AttributeError")
    /\ UNCHANGED <<gm, files, next_id, writers, enumVars, prepVars>>

\* Lines 43-44.
RecvUnknown(s) ==
    /\ Waiting(s, "UNKNOWN")
    /\ Take(s)
    /\ Update(s, Idle(Taken(s)), <<>>, <<>>)
    /\ UNCHANGED <<gm, files, next_id, writers, enumVars, prepVars>>

\* Lines 37-38 and send_graphs_list.
RecvListGraphs(s) ==
    /\ Waiting(s, "LIST_GRAPHS")
    /\ Take(s)
    /\ ReplyDone(s, Taken(s), GraphsList)
    /\ UNCHANGED <<gm, files, next_id, writers, enumVars, prepVars>>

\* handle_switch_graph.
RecvSwitchGraph(s) ==
    /\ Waiting(s, "SWITCH_GRAPH")
    /\ Take(s)
    /\ LET r == Taken(s)
       IN  IF r.cur.name = "none"
           THEN /\ Update(s, Idle(r), <<>>, <<>>)
                /\ UNCHANGED <<gm, files>>
           ELSE \E mig \in MigrationOutcomes :
                  LET res == SwitchGraph(gm, files, r.cur.name, mig)
                  IN  /\ gm' = res.gm
                      /\ files' = res.files
                      /\ IF res.exc = "none"
                         THEN ReplyDone(s, r,
                                  ServerMsg("GRAPH_SWITCHED", 0, 0, r.cur.name, {}, "none"))
                         ELSE IF res.exc \in {"FileNotFoundError", "ValueError"}
                         THEN ReplyDone(s, r, GraphCreateError(res.exc))
                         ELSE Caught(s, r, res.exc)
    /\ UNCHANGED <<next_id, writers, enumVars, prepVars>>

\* handle_get_nodes_in_region: get_nodes_in_polygon raises ValueError without
\* a graph (get_graph) and on coordinates that make no polygon, and
\* graph_to_gdfs raises on a graph without nodes.
RecvGetNodesInRegion(s) ==
    /\ Waiting(s, "GET_NODES_IN_REGION")
    /\ Take(s)
    /\ LET r == Taken(s)
       IN  IF r.cur.fields = "missing" THEN Update(s, Idle(r), <<>>, <<>>)
           ELSE IF gm.graph = NoGraph THEN Caught(s, r, "ValueError")
           ELSE IF r.cur.fields = "invalid" THEN Caught(s, r, "ValueError")
           ELSE IF ~gm.graph.nodes THEN Caught(s, r, "Exception")
           ELSE ReplyDone(s, r, ServerMsg("NODES_IN_REGION", 0, 0, "none", {}, "none"))
    /\ UNCHANGED <<gm, files, next_id, writers, enumVars, prepVars>>

\* handle_get_nodes_near_polyline: get_edges_near_polyline raises ValueError
\* without a graph and on coordinates that are no pairs, nearest_nodes raises
\* on a graph without nodes, and G[u][v][0] raises KeyError on a path edge
\* without key 0.
RecvGetNodesNearPolyline(s) ==
    /\ Waiting(s, "GET_NODES_NEAR_POLYLINE")
    /\ Take(s)
    /\ LET r == Taken(s)
       IN  IF r.cur.fields = "missing" THEN Update(s, Idle(r), <<>>, <<>>)
           ELSE IF gm.graph = NoGraph THEN Caught(s, r, "ValueError")
           ELSE IF r.cur.fields = "invalid" THEN Caught(s, r, "ValueError")
           ELSE IF ~gm.graph.nodes THEN Caught(s, r, "Exception")
           ELSE \/ ReplyDone(s, r, ServerMsg("NODES_ALONG_PATH", 0, 0, "none", {}, "none"))
                \/ /\ ~gm.graph.key0
                   /\ Caught(s, r, "KeyError")
    /\ UNCHANGED <<gm, files, next_id, writers, enumVars, prepVars>>

\* handle_create_graph up to the run_in_executor call (lines 86-139).
RecvCreateGraph(s) ==
    /\ Waiting(s, "CREATE_GRAPH")
    /\ Take(s)
    /\ LET r == Taken(s)
       IN  IF r.cur.name = "none"
           THEN ReplyDone(s, r, GraphCreateError("Missing required field: name"))
           ELSE IF BoundaryProblem(r.cur) # "none"
           THEN ReplyDone(s, r, GraphCreateError(BoundaryProblem(r.cur)))
           ELSE Reply(s, [r EXCEPT !.pc = "creating"],
                      ServerMsg("GRAPH_CREATING", 0, 0, r.cur.name, {}, "none"))
    /\ UNCHANGED <<gm, files, next_id, writers, enumVars, prepVars>>

\* generate_graph* in the executor thread opens <name>.gpickle for writing
\* (lines 572, 610, 658), which truncates it.
ExecutorOpens(s) ==
    /\ sess[s].pc = "creating"
    /\ sess' = [sess EXCEPT ![s].pc = "writing"]
    /\ files' = [files EXCEPT ![sess[s].cur.name] = Unreadable]
    /\ writers' = writers \cup {s}
    /\ UNCHANGED <<gm, sent, log, handled, next_id, enumVars, prepVars>>

\* pickle.dump finishes and the file is closed (lines 573, 611, 659).
ExecutorDumps(s) ==
    /\ sess[s].pc = "writing"
    /\ \E g \in {Good, NoKey0} :
         files' = [files EXCEPT ![sess[s].cur.name] = g]
    /\ sess' = [sess EXCEPT ![s].pc = "written"]
    /\ writers' = writers \ {s}
    /\ UNCHANGED <<gm, sent, log, handled, next_id, enumVars, prepVars>>

\* The executor raises, before opening the file (download, preparation) or
\* while writing it; lines 166-172 answer with GRAPH_CREATE_ERROR.
ExecutorRaises(s) ==
    /\ sess[s].pc \in {"creating", "writing"}
    /\ ReplyDone(s, sess[s], GraphCreateError("Exception"))
    /\ writers' = writers \ {s}
    /\ UNCHANGED <<gm, files, handled, next_id, enumVars, prepVars>>

\* Lines 155-160: the handler resumes, loads the new graph, sends
\* GRAPH_CREATED.
CreateLoad(s) ==
    /\ sess[s].pc = "written"
    /\ \E mig \in MigrationOutcomes :
         LET res == SwitchGraph(gm, files, sess[s].cur.name, mig)
         IN  /\ gm' = res.gm
             /\ files' = res.files
             /\ IF res.exc = "none"
                THEN Reply(s, [sess[s] EXCEPT !.pc = "created"],
                           ServerMsg("GRAPH_CREATED", 0, 0, sess[s].cur.name, {}, "none"))
                ELSE ReplyDone(s, sess[s], GraphCreateError(res.exc))
    /\ UNCHANGED <<handled, next_id, writers, enumVars, prepVars>>

\* Line 163: the updated graphs list.
CreateList(s) ==
    /\ sess[s].pc = "created"
    /\ ReplyDone(s, sess[s], GraphsList)
    /\ UNCHANGED <<gm, files, handled, next_id, writers, enumVars, prepVars>>

\* handle_start_generation up to the PATHSET_CREATED send (lines 174-193).
RecvStartGeneration(s) ==
    /\ Waiting(s, "START_GENERATION")
    /\ Take(s)
    /\ LET r == Taken(s)
       IN  IF r.cur.fields = "no_lat_lng"
           THEN Update(s, Idle(r), <<>>, <<>>) /\ next_id' = next_id
           ELSE IF gm.graph = NoGraph
           THEN Caught(s, r, "ValueError") /\ next_id' = next_id
           ELSE IF ~gm.graph.nodes
           THEN Caught(s, r, "Exception") /\ next_id' = next_id
           ELSE /\ next_id' = next_id + 1
                /\ Reply(s, [r EXCEPT !.pc = "gen_created", !.start = gm.graph,
                                      !.path_set_id = next_id + 1],
                         ServerMsg("PATHSET_CREATED", next_id + 1, 0, "none", {}, "none"))
    /\ UNCHANGED <<gm, files, writers, enumVars, prepVars>>

\* What next() on the generator of find_paths can do for the handler r: yield
\* a route, stop (the frontier is empty or the iteration cap is reached), or
\* raise: KeyError when an edge of G has no key 0 (loop_generator.py:127),
\* NetworkXError or KeyError when the start node was snapped in another graph
\* than G.
PullOutcomes(r) ==
    {"stop"}
    \cup (IF r.produced < MaxRoutes THEN {"yield"} ELSE {})
    \cup (IF ~r.G.key0 \/ r.G.name # r.start.name THEN {"raise"} ELSE {})

\* Lines 213-230 and 237-241: one next() on the generator and what the
\* handler does with its outcome.
Pull(s, r, o) ==
    CASE o = "yield" ->
           Reply(s, [r EXCEPT !.pc = "gen_sent", !.produced = @ + 1],
                 ServerMsg("PATH_RECEIVED", r.path_set_id, r.produced + 1, "none", {}, "none"))
      [] o = "stop" ->
           ReplyDone(s, r,
                 ServerMsg("GENERATION_COMPLETE", r.path_set_id, 0, "none", {}, "none"))
      [] o = "raise" -> Caught(s, r, "KeyError")

\* Lines 196-230: the handler resumes after the PATHSET_CREATED send, reads
\* the graph and the parameters, and asks the generator for the first route.
GenBegin(s) ==
    /\ sess[s].pc = "gen_created"
    /\ LET r == [sess[s] EXCEPT !.G = gm.graph, !.count = 0, !.produced = 0]
       IN  IF r.cur.fields = "bad_params"
           THEN Caught(s, r, "TypeError")
           ELSE \E o \in PullOutcomes(r) : Pull(s, r, o)
    /\ UNCHANGED <<gm, files, handled, next_id, writers, enumVars, prepVars>>

\* Lines 231-241: the handler resumes after sleep(0), counts the route and
\* either breaks or asks for the next one.
GenResume(s) ==
    /\ sess[s].pc = "gen_sent"
    /\ LET r == [sess[s] EXCEPT !.count = @ + 1]
       IN  IF r.count >= r.cur.num_paths
           THEN ReplyDone(s, r,
                    ServerMsg("GENERATION_COMPLETE", r.path_set_id, 0, "none", {}, "none"))
           ELSE \E o \in PullOutcomes(r) : Pull(s, r, o)
    /\ UNCHANGED <<gm, files, handled, next_id, writers, enumVars, prepVars>>

\* ---- the specification ---------------------------------------------------

\* The enumerator variables while only the server is studied.
EnumOff ==
    /\ G = GZero
    /\ start_node = 0
    /\ params = CHOOSE p \in Params : TRUE
    /\ queue = {}
    /\ path_masks = {}
    /\ existing_centroids = <<>>
    /\ iters = 0
    /\ gen = "done"
    /\ emitted = <<>>
    /\ last = Did("init", NoEntry)

\* main() has run on one of the initial directories without raising, and no
\* client has connected.
InitServer ==
    /\ EnumOff
    /\ PrepOff
    /\ \E dir \in InitialDirs : \E mig \in MigrationOutcomes :
         LET res == Main(dir, mig)
         IN  /\ res.exc = "none"
             /\ gm = res.gm
             /\ files = res.files
    /\ sess = [s \in Sessions |-> NewSession]
    /\ sent = [s \in Sessions |-> <<>>]
    /\ log = [s \in Sessions |-> <<>>]
    /\ handled = [s \in Sessions |-> <<>>]
    /\ next_id = 0
    /\ writers = {}

NextServer ==
    \/ \E s \in Sessions : \E m \in ClientMessages : ClientSends(s, m)
    \/ \E s \in Sessions : ClientCloses(s)
    \/ \E s \in Sessions : Connect(s)
    \/ \E s \in Sessions : Disconnected(s)
    \/ \E s \in Sessions : RecvMalformed(s)
    \/ \E s \in Sessions : RecvNonObject(s)
    \/ \E s \in Sessions : RecvUnknown(s)
    \/ \E s \in Sessions : RecvListGraphs(s)
    \/ \E s \in Sessions : RecvSwitchGraph(s)
    \/ \E s \in Sessions : RecvGetNodesInRegion(s)
    \/ \E s \in Sessions : RecvGetNodesNearPolyline(s)
    \/ \E s \in Sessions : RecvCreateGraph(s)
    \/ \E s \in Sessions : ExecutorOpens(s)
    \/ \E s \in Sessions : ExecutorDumps(s)
    \/ \E s \in Sessions : ExecutorRaises(s)
    \/ \E s \in Sessions : CreateLoad(s)
    \/ \E s \in Sessions : CreateList(s)
    \/ \E s \in Sessions : RecvStartGeneration(s)
    \/ \E s \in Sessions : GenBegin(s)
    \/ \E s \in Sessions : GenResume(s)

SpecServer == InitServer /\ [][NextServer]_vars

-----------------------------------------------------------------------------
(* Properties of the server *)

\* The messages of one path set, in the order sent.
Stream(s, id) == SelectSeq(sent[s], LAMBDA x : x.pathSetId = id)

\* C8: for one START_GENERATION request the server sends PATHSET_CREATED
\* first, then PATH_RECEIVED messages with the same pathSetId in emission
\* order, then exactly one GENERATION_COMPLETE, after which nothing of that
\* path set is sent; once the handler of the request has returned on an open
\* channel the GENERATION_COMPLETE has been sent; and a session handles one
\* message at a time, the one taken last.
C8_StreamProtocol ==
    \A s \in Sessions :
      /\ \A id \in 1..next_id :
           LET st == Stream(s, id)
           IN  st # <<>> =>
                 /\ st[1].type = "PATHSET_CREATED"
                 /\ \A i \in 2..Len(st) :
                      \/ st[i].type = "PATH_RECEIVED" /\ st[i].k = i - 1
                      \/ st[i].type = "GENERATION_COMPLETE" /\ i = Len(st)
                 /\ (sess[s].path_set_id # id /\ sess[s].open)
                      => st[Len(st)].type = "GENERATION_COMPLETE"
      /\ sess[s].pc \notin {"new", "idle", "ended"}
           => sess[s].cur = Last(handled[s])

\* An enumeration of session s is active: its generator has yielded a route
\* and the handler is suspended in the streaming loop.
Enumerating(s) == sess[s].pc = "gen_sent"

\* C9: while an enumeration is active in some session, a SWITCH_GRAPH request
\* that names a graph leaves the active graph and its name unchanged and is
\* answered with an error.
C9_NoSwitchWhileEnumerating ==
    [][\A t \in Sessions :
         ( /\ \E s \in Sessions : Enumerating(s)
           /\ handled'[t] # handled[t]
           /\ Last(handled'[t]).type = "SWITCH_GRAPH"
           /\ Last(handled'[t]).name # "none"
           /\ sess[t].open )
         => /\ gm' = gm
            /\ sent'[t] # sent[t]
            /\ Last(sent'[t]).type = "GRAPH_CREATE_ERROR"]_vars

\* C10: every exception raised while a client message is handled on an open
\* channel is answered with an error message to that client, and the session
\* goes on with the next message.
C10_ExceptionsReported ==
    [][\A s \in Sessions :
         (log'[s] # log[s] /\ Last(log'[s]).exc # "ConnectionClosed")
         => /\ sent'[s] # sent[s]
            /\ Last(sent'[s]).type = "GRAPH_CREATE_ERROR"
            /\ sess'[s].pc = "idle"]_vars

\* A step in which session t takes a SWITCH_GRAPH request that names a graph.
TakesSwitch(t) ==
    /\ handled'[t] # handled[t]
    /\ Last(handled'[t]).type = "SWITCH_GRAPH"
    /\ Last(handled'[t]).name # "none"

\* C11: a SWITCH_GRAPH request that does not end with GRAPH_SWITCHED (the
\* file is missing or unreadable, the graph is empty, the elevation migration
\* or the re-save fails) leaves the active graph and the active name as they
\* were, graph and name belonging together.
C11_SwitchAtomic ==
    [][\A t \in Sessions :
         ( /\ TakesSwitch(t)
           /\ sess[t].open
           /\ ~(sent'[t] # sent[t] /\ Last(sent'[t]).type = "GRAPH_SWITCHED") )
         => (gm' = gm /\ gm'.graph.name = gm'.active_name)]_vars

-----------------------------------------------------------------------------
(* Graph creation requests in detail: the server with clients that send      *)
(* only CREATE_GRAPH, with every way a boundary can fail validation.         *)

CreateMessages ==
    {CreateMsg(n, "polygon", Polygon(c)) : n \in {"none", "other"}, c \in {-1, 0, 2, 3}}
    \cup {CreateMsg("other", "circle", Circle(lat, lng, TRUE, 1)) :
            lat \in BOOLEAN, lng \in BOOLEAN}
    \cup {CreateMsg("other", "circle", Circle(TRUE, TRUE, FALSE, 0))}
    \cup {CreateMsg("other", "circle", Circle(TRUE, TRUE, TRUE, r)) : r \in {-1, 0}}
    \cup {CreateMsg("none", "circle", Circle(TRUE, TRUE, TRUE, 1))}
    \cup {CreateMsg("other", "box", Box(Bounds4 \ {b})) : b \in Bounds4}
    \cup {CreateMsg(n, "box", Box(Bounds4)) : n \in {"none", "other"}}

NextCreate ==
    \/ \E s \in Sessions : \E m \in CreateMessages : ClientSends(s, m)
    \/ \E s \in Sessions : ClientCloses(s)
    \/ \E s \in Sessions : Connect(s)
    \/ \E s \in Sessions : Disconnected(s)
    \/ \E s \in Sessions : RecvCreateGraph(s)
    \/ \E s \in Sessions : ExecutorOpens(s)
    \/ \E s \in Sessions : ExecutorDumps(s)
    \/ \E s \in Sessions : ExecutorRaises(s)
    \/ \E s \in Sessions : CreateLoad(s)
    \/ \E s \in Sessions : CreateList(s)

\* The server is started on a directory that holds the default graph.
InitCreate ==
    /\ InitServer
    /\ files[DEFAULT_GRAPH] = Good
    /\ files["other"] \in {Absent, Good}

SpecCreate == InitCreate /\ [][NextCreate]_vars

\* The requests C12 is about, in its words.
C12_Rejected(m) ==
    /\ m.type = "CREATE_GRAPH"
    /\ \/ m.name = "none"
       \/ m.boundary_type = "polygon" /\ m.payload.coordinates < 3
       \/ /\ m.boundary_type = "circle"
          /\ \/ ~m.payload.center_lat \/ ~m.payload.center_lng
             \/ ~m.payload.has_radius \/ m.payload.radius_miles <= 0
       \/ m.boundary_type = "box" /\ m.payload.bounds # Bounds4

\* C12: a CREATE_GRAPH request with a missing name or a boundary that fails
\* validation is answered with one GRAPH_CREATE_ERROR and the handler
\* returns: no GRAPH_CREATING, no file written, the active graph unchanged.
C12_InvalidCreateRejected ==
    [][\A t \in Sessions :
         ( /\ handled'[t] # handled[t]
           /\ C12_Rejected(Last(handled'[t]))
           /\ sess[t].open )
         => /\ sent'[t] = Append(sent[t], Last(sent'[t]))
            /\ Last(sent'[t]).type = "GRAPH_CREATE_ERROR"
            /\ sess'[t].pc = "idle"
            /\ gm' = gm
            /\ files' = files
            /\ writers' = writers]_vars

\* A circle of radius 0 has been rejected.
C12_Witness ==
    \E t \in Sessions :
      /\ handled[t] # <<>>
      /\ Last(handled[t]) = CreateMsg("other", "circle", Circle(TRUE, TRUE, TRUE, 0))
      /\ Last(sent[t]).type = "GRAPH_CREATE_ERROR"
      /\ sess[t].pc = "idle"

\* The sessions whose executor thread has <name>.gpickle open for writing.
WritersOf(name) == {w \in writers : sess[w].cur.name = name}

\* C13: no graph file is written by two executor threads at overlapping
\* times, and no graph file is loaded (by SWITCH_GRAPH, or by the load that
\* ends a CREATE_GRAPH) while an executor thread is writing it.
C13_FileAccessSerialized ==
    [][/\ \A n \in Names : Cardinality({w \in writers' : sess'[w].cur.name = n}) <= 1
       /\ \A t \in Sessions :
            /\ TakesSwitch(t) => WritersOf(Last(handled'[t]).name) = {}
            /\ (sess[t].pc = "written" /\ sess'[t].pc # "written")
                 => WritersOf(sess[t].cur.name) = {}]_vars

\* Session s is inside handle_start_generation, past the PATHSET_CREATED send.
Streaming(s) == sess[s].pc \in {"gen_created", "gen_sent"}

\* C14: once the channel of a session is closed nothing more is sent on it,
\* and the step in which a streaming handler resumes (it counts the route,
\* and asks the generator for at most one more) ends the handler on an
\* exception, so that the generator is not advanced again.
C14_NothingAfterClose ==
    [][\A s \in Sessions :
         ~sess[s].open =>
           /\ sent'[s] = sent[s]
           /\ (Streaming(s) /\ sess'[s] # sess[s]) =>
                /\ sess'[s].pc = "idle"
                /\ Len(log'[s]) = Len(log[s]) + 1]_vars

\* A channel was closed in mid-stream: the path set has a route and no
\* GENERATION_COMPLETE, and the handler has ended on ConnectionClosed.
C14_Witness ==
    \E s \in Sessions :
      /\ ~sess[s].open
      /\ sess[s].pc \in {"idle", "ended"}
      /\ log[s] # <<>>
      /\ Last(log[s]) = [exc |-> "ConnectionClosed", type |-> "START_GENERATION"]
      /\ Last(sent[s]).type = "PATH_RECEIVED"

-----------------------------------------------------------------------------
(* Graph preparation: graph_manager.py, _process_graph and its stages *)

\* ---- the MultiDiGraph being prepared ------------------------------------

\* A graph is a set of nodes and a set of directed edges (u, v, key) that
\* carry a length and a geometry.  A geometry is the sequence of the points
\* of its LineString; the point of a node is the node's id, and <<>> stands
\* for an edge without the 'geometry' attribute.
Edge(u, v, k, length, geometry) ==
    [u |-> u, v |-> v, k |-> k, length |-> length, geometry |-> geometry]

Graph(nodes, edges) == [nodes |-> nodes, edges |-> edges]

\* A street drawn in both directions under one key, as OSMnx stores it.
Street(u, v, k, length) ==
    {Edge(u, v, k, length, <<>>), Edge(v, u, k, length, <<>>)}

Between(g, u, v) == {e \in g.edges : e.u = u /\ e.v = v}

Keys(g, u, v) == {e.k : e \in Between(g, u, v)}

has_edge(g, u, v) == Between(g, u, v) # {}

\* list(G[u][v].keys())[0].  Keys are inserted in increasing order in every
\* graph of this model (at most two parallel edges per pair on input, and
\* new_edge_key only ever adds a larger key), so the first key is the least.
FirstEdge(g, u, v) ==
    CHOOSE e \in Between(g, u, v) : \A f \in Between(g, u, v) : e.k <= f.k

\* networkx MultiGraph.new_edge_key: len(keydict), then the next free one.
RECURSIVE FreeKey(_, _)
FreeKey(taken, k) == IF k \in taken THEN FreeKey(taken, k + 1) ELSE k

new_edge_key(g, u, v) == FreeKey(Keys(g, u, v), Cardinality(Keys(g, u, v)))

add_edge(g, u, v, length, geometry) ==
    Graph(g.nodes \cup {u, v},
          g.edges \cup {Edge(u, v, new_edge_key(g, u, v), length, geometry)})

remove_nodes_from(g, S) ==
    Graph(g.nodes \ S, {e \in g.edges : e.u \notin S /\ e.v \notin S})

\* G.to_undirected(): the edges (u, v, k) and (v, u, k) become one
\* undirected edge of key k.
UndirectedEdges(g) == {[ends |-> {e.u, e.v}, k |-> e.k] : e \in g.edges}

\* Degree in the undirected multigraph: one per (pair, key), a self-loop
\* counting twice.
degree(g, n) ==
    Cardinality({x \in UndirectedEdges(g) : n \in x.ends})
    + Cardinality({x \in UndirectedEdges(g) : x.ends = {n}})

neighbors(g, n) ==
    {e.v : e \in {f \in g.edges : f.u = n}}
    \cup {e.u : e \in {f \in g.edges : f.v = n}}

\* What _simplify_graph_topology reads of a G.to_undirected() snapshot.
to_undirected(g) ==
    [nodes  |-> g.nodes,
     adj    |-> [n \in g.nodes |-> neighbors(g, n)],
     degree |-> [n \in g.nodes |-> degree(g, n)]]

\* nx.isolates: the nodes without any incident edge.
isolates(g) == {n \in g.nodes : \A e \in g.edges : e.u # n /\ e.v # n}

selfloop_edges(g) == {e \in g.edges : e.u = e.v}

\* The unordered pairs of distinct nodes joined by an edge.
Pairs(g) == {{e.u, e.v} : e \in {f \in g.edges : f.u # f.v}}

\* ---- connectivity, blocks and articulation points -----------------------

\* The nodes of S reachable from C inside S along the pairs E.
RECURSIVE Component(_, _, _)
Component(E, S, C) ==
    LET D == C \cup {m \in S : \E c \in C : {c, m} \in E}
    IN  IF D = C THEN C ELSE Component(E, S, D)

ConnectedIn(E, S) ==
    S # {} /\ Component(E, S, {CHOOSE x \in S : TRUE}) = S

\* S induces a biconnected subgraph: an edge, or a connected subgraph of at
\* least three nodes that stays connected when any one node is removed.
Biconnected(E, S) ==
    /\ Cardinality(S) >= 2
    /\ ConnectedIn(E, S)
    /\ Cardinality(S) >= 3 => \A x \in S : ConnectedIn(E, S \ {x})

\* nx.biconnected_components: the maximal biconnected node sets.
biconnected_components(g) ==
    LET E == Pairs(g)
        B == {S \in SUBSET g.nodes : Biconnected(E, S)}
    IN  {S \in B : \A T \in B : S \subseteq T => S = T}

\* nx.articulation_points: the nodes whose removal disconnects two nodes
\* that were connected.
articulation_points(g) ==
    LET E == Pairs(g)
    IN  {x \in g.nodes :
           \E a \in g.nodes \ {x} :
              Component(E, g.nodes, {a}) \ {x} # Component(E, g.nodes \ {x}, {a})}

\* ---- _prune_graph_biconnected (lines 338-433) ---------------------------

\* Line 481: the threshold _process_graph passes.
min_component_length == 3000

RECURSIVE Sum(_)
Sum(lengths) ==
    IF lengths = <<>> THEN 0 ELSE lengths[1] + Sum(Tail(lengths))

RECURSIVE SeqOf(_)
SeqOf(S) ==
    IF S = {} THEN <<>>
    ELSE LET x == CHOOSE y \in S : TRUE IN <<x>> \o SeqOf(S \ {x})

\* Lines 357-363: the least length among the parallel edges of a pair.
min_length(g, pair) ==
    LET ls == {e.length : e \in {f \in g.edges : {f.u, f.v} = pair}}
    IN  CHOOSE l \in ls : \A m \in ls : l <= m

\* Lines 348-364: the length of a component, every pair counted once.
comp_length(g, comp) ==
    LET inside == SeqOf({p \in Pairs(g) : p \subseteq comp})
    IN  Sum([i \in 1..Len(inside) |-> min_length(g, inside[i])])

\* Line 371.
is_large(g, comp) ==
    Cardinality(comp) >= 3 /\ comp_length(g, comp) >= min_component_length

\* Lines 366-377: the block-cut tree.  Its nodes are the blocks and the cut
\* vertices; a cut vertex is joined to every block that contains it.
BlockNode(comp) == [type |-> "block", set |-> comp]

CutNode(ap) == [type |-> "cut_vertex", set |-> {ap}]

NoNode == [type |-> "none", set |-> {}]

block_cut_tree(g) ==
    LET components == biconnected_components(g)
        art_points == articulation_points(g)
        blocks     == {BlockNode(comp) : comp \in components}
    IN  [nodes     |-> blocks \cup {CutNode(ap) : ap \in art_points \cap UNION components},
         edges     |-> UNION {{{b, CutNode(ap)} : ap \in art_points \cap b.set} :
                                b \in blocks},
         large_set |-> {b \in blocks : is_large(g, b.set)}]

\* Lines 379-380.
large_blocks(g) == block_cut_tree(g).large_set

\* Line 416.
tree_component(bct, b) == Component(bct.edges, bct.nodes, {b})

\* Lines 397-404 with every node of the walk marked.
needed_Always(T, large_set, node, parent) == TRUE

\* Lines 397-404 without the loop over the children: a node is needed only
\* if it is a large block itself.
needed_OwnOnly(T, large_set, node, parent) == node \in large_set

\* Lines 389-408: in the walk from the root, a node is needed if it is a
\* large block or one of its children is needed.
RECURSIVE needed(_, _, _, _)
needed(T, large_set, node, parent) ==
    \/ node \in large_set
    \/ \E child \in (UNION {t \in T : node \in t}) \ {node, parent} :
          needed(T, large_set, child, node)

\* Lines 405-408: the nodes of the walk that get keep = True.
RECURSIVE Kept(_, _, _, _)
Kept(T, large_set, node, parent) ==
    IF needed(T, large_set, node, parent)
    THEN {node} \cup UNION {Kept(T, large_set, child, node) :
             child \in (UNION {t \in T : node \in t}) \ {node, parent}}
    ELSE {}

\* Lines 412-417: one walk per tree component that has a large block, rooted
\* at the large block that comes first in the list of components.  The order
\* of that list is the order of a depth-first search over the graph, so any
\* large block of the component can be the root.
RootChoices(bct) ==
    {R \in SUBSET bct.large_set :
        \A lb \in bct.large_set :
            Cardinality(R \cap tree_component(bct, lb)) = 1}

\* Lines 420-427.
valid_nodes(bct, roots) ==
    UNION {x.set : x \in UNION {Kept(bct.edges, bct.large_set, r, NoNode) :
                                  r \in roots}}

\* Lines 429-433.
Pruned(g, bct, roots) ==
    LET h == remove_nodes_from(g, g.nodes \ valid_nodes(bct, roots))
    IN  remove_nodes_from(h, isolates(h))

\* ---- consolidation, parallel edges, degree-2 merge ----------------------

\* Lines 483-489: ox.consolidate_intersections(tolerance=15,
\* rebuild_graph=True, dead_ends=False) between two projections.  Every
\* input of this model has its nodes more than 15 m apart, so every node is
\* a cluster of its own: the library drops the nodes on at most one street
\* and rebuilds the graph edge by edge, which numbers the parallel edges of a
\* pair 0, 1, ... in their old order.
Consolidated(g) ==
    LET h == remove_nodes_from(g, {n \in g.nodes : degree(g, n) <= 1})
    IN  Graph(h.nodes,
              {Edge(e.u, e.v,
                    Cardinality({k \in Keys(h, e.u, e.v) : k < e.k}),
                    e.length, e.geometry) : e \in h.edges})

\* Lines 323-330: the first key, in key order, of strictly smallest length.
best_key(g, u, v) ==
    LET es == Between(g, u, v)
        m  == CHOOSE e \in es :
                /\ \A f \in es : e.length <= f.length
                /\ \A f \in es : f.length = e.length => e.k <= f.k
    IN  m.k

\* _keep_shortest_edge (lines 317-336).
keep_shortest_edge(g) ==
    Graph(g.nodes,
          {e \in g.edges :
              Cardinality(Keys(g, e.u, e.v)) > 1 => e.k = best_key(g, e.u, e.v)})

RECURSIVE Reversed(_)
Reversed(coords) ==
    IF coords = <<>> THEN <<>>
    ELSE Append(Reversed(Tail(coords)), Head(coords))

Front(coords) == SubSeq(coords, 1, Len(coords) - 1)

\* Lines 287-309: the geometry of the merged edge.
merged_geometry(u, n, v, attr_u, attr_v) ==
    LET geo1 == IF attr_u.geometry = <<>> THEN <<u, n>> ELSE attr_u.geometry
        geo2 == IF attr_v.geometry = <<>> THEN <<n, v>> ELSE attr_v.geometry
        start1 == geo1[1]
        end1   == geo1[Len(geo1)]
        start2 == geo2[1]
        end2   == geo2[Len(geo2)]
        coords1 == IF start1 = start2 \/ start1 = end2
                   THEN Reversed(geo1) ELSE geo1
        coords2 == IF start1 # start2 /\ (start1 = end2 \/ end1 = end2)
                   THEN Reversed(geo2) ELSE geo2
    IN  Front(coords1) \o coords2

\* _remove_node_and_merge (lines 271-315), called with both edges present.
remove_node_and_merge(g, u, n, v) ==
    LET attr_u   == FirstEdge(g, u, n)
        attr_v   == FirstEdge(g, n, v)
        geometry == merged_geometry(u, n, v, attr_u, attr_v)
        length   == attr_u.length + attr_v.length
        h        == remove_nodes_from(g, {n})
    IN  add_edge(add_edge(h, u, v, length, geometry), v, u, length, geometry)

\* Lines 498-499.
Cleaned(g) ==
    LET h == Graph(g.nodes, g.edges \ selfloop_edges(g))
    IN  remove_nodes_from(h, isolates(h))

\* _relabel_graph (lines 266-269): the nodes renumbered 0..N-1 in the order
\* of G.nodes, which after the rebuild of the consolidation is the order of
\* the ids.
relabel(g) ==
    LET new_id(n) == Cardinality({m \in g.nodes : m < n})
    IN  Graph({new_id(n) : n \in g.nodes},
              {Edge(new_id(e.u), new_id(e.v), e.k, e.length, e.geometry) :
                 e \in g.edges})

\* ---- the graphs handed to _process_graph --------------------------------

\* Three streets around a triangle, in both directions.
Triangle(a, b, c, length) ==
    Street(a, b, 0, length) \cup Street(b, c, 0, length) \cup Street(c, a, 0, length)

\* Three one-way streets around a triangle.
OneWayTriangle(a, b, c, length) ==
    {Edge(a, b, 0, length, <<>>), Edge(b, c, 0, length, <<>>),
     Edge(c, a, 0, length, <<>>)}

\* One large triangle.
PTriangle == Graph(0..2, Triangle(0, 1, 2, 1000))

\* Two large triangles joined by a bridge chain 2 - 3 - 4 - 5.
PDumbbell ==
    Graph(0..7, Triangle(0, 1, 2, 1000) \cup Triangle(5, 6, 7, 1000)
                \cup Street(2, 3, 0, 500) \cup Street(3, 4, 0, 500)
                \cup Street(4, 5, 0, 500))

\* The same with the triangles as one-way streets.
PDumbbellOneWay ==
    Graph(0..7, OneWayTriangle(0, 1, 2, 1000) \cup OneWayTriangle(5, 6, 7, 1000)
                \cup Street(2, 3, 0, 500) \cup Street(3, 4, 0, 500)
                \cup Street(4, 5, 0, 500))

\* Two large triangles joined through a small one, a dead end on the small
\* one and a small triangle hanging off a large one.
PConnector ==
    Graph(0..9, Triangle(0, 1, 2, 1000) \cup Triangle(2, 3, 4, 100)
                \cup Triangle(4, 5, 6, 1000) \cup Street(3, 7, 0, 100)
                \cup Triangle(6, 8, 9, 100))

\* A square with one diagonal: 3500 m of streets, no simple cycle over 2800 m.
PDiagonal ==
    Graph(0..3, Street(0, 1, 0, 700) \cup Street(1, 2, 0, 700)
                \cup Street(2, 3, 0, 700) \cup Street(3, 0, 0, 700)
                \cup Street(0, 2, 0, 700))

\* A small triangle with a dead end: no large block.
PSmall == Graph(0..3, Triangle(0, 1, 2, 100) \cup Street(2, 3, 0, 100))

\* A tree: no block of three nodes.
PTree == Graph(0..2, Street(0, 1, 0, 2000) \cup Street(1, 2, 0, 2000))

\* A large triangle one of whose streets has a longer twin under key 0.
PParallel ==
    Graph(0..3, Street(0, 1, 0, 1500) \cup Street(0, 1, 1, 1000)
                \cup Street(1, 2, 0, 1000) \cup Street(2, 0, 0, 1000)
                \cup Street(2, 3, 0, 1000) \cup Street(3, 0, 0, 1000)
                \cup Street(1, 3, 0, 1000))

\* A large square one of whose corners can only be entered.
PConvergent ==
    Graph(0..3, Street(0, 1, 0, 1000) \cup Street(1, 2, 0, 1000)
                \cup {Edge(0, 3, 0, 1000, <<>>), Edge(2, 3, 0, 1000, <<>>)})

\* Four nodes pairwise joined: nothing to prune, nothing to merge.
PComplete ==
    Graph(0..3, Triangle(0, 1, 2, 1000) \cup Street(0, 3, 0, 1000)
                \cup Street(1, 3, 0, 1000) \cup Street(2, 3, 0, 1000))

PEmpty == Graph({}, {})

PrepGraphs ==
    {PTriangle, PDumbbell, PDumbbellOneWay, PConnector, PDiagonal, PSmall,
     PTree, PParallel, PConvergent, PComplete, PEmpty}

\* The node ids of the inputs.
PrepNodes == UNION {g.nodes : g \in PrepGraphs}

\* ---- one run of _process_graph, then _relabel_graph ---------------------

Stage(pc, g) == [prep EXCEPT !.pc = pc, !.G = g]

\* Lines 420-431 reached with nothing marked: every node is removed.
Skipped_Emptied(g) == remove_nodes_from(g, g.nodes)

\* Lines 382-384: the early return touches nothing.
Skipped(g) == g

\* Lines 379-384: no large block, the stage only prints a warning.
PruneSkipped ==
    /\ prep.pc = "prune"
    /\ large_blocks(prep.G) = {}
    /\ prep' = [prep EXCEPT !.pc = "consolidate", !.warned = TRUE,
                            !.G = Skipped(prep.G),
                            !.pruned = Skipped(prep.G)]
    /\ UNCHANGED <<enumVars, serverVars>>

\* Lines 344-433 with a large block.
Prune ==
    /\ prep.pc = "prune"
    /\ LET bct == block_cut_tree(prep.G)
       IN  /\ bct.large_set # {}
           /\ \E roots \in RootChoices(bct) :
                LET H == Pruned(prep.G, bct, roots)
                IN  prep' = [prep EXCEPT !.pc = "consolidate", !.roots = roots,
                                         !.G = H, !.pruned = H]
    /\ UNCHANGED <<enumVars, serverVars>>

\* Lines 483-489.
Consolidate ==
    /\ prep.pc = "consolidate"
    /\ prep' = Stage("keep_shortest", Consolidated(prep.G))
    /\ UNCHANGED <<enumVars, serverVars>>

\* Line 492.
KeepShortest ==
    /\ prep.pc = "keep_shortest"
    /\ prep' = [prep EXCEPT !.pc = "simplify",
                            !.G = keep_shortest_edge(prep.G),
                            !.shortest = keep_shortest_edge(prep.G)]
    /\ UNCHANGED <<enumVars, serverVars>>

\* Lines 442-446: a pass begins with a snapshot of the undirected graph.
BeginPass ==
    /\ prep.pc = "simplify"
    /\ LET G_undir == to_undirected(prep.G)
       IN  prep' = [prep EXCEPT
                      !.pc = "pass",
                      !.G_undir = G_undir,
                      !.degree_2_nodes = {n \in G_undir.nodes : G_undir.degree[n] = 2},
                      !.removed_in_this_pass = 0]
    /\ UNCHANGED <<enumVars, serverVars>>

\* Lines 450-452: the ways list(G_undir.neighbors(n)) can read [u, v].  The
\* order is the one of the adjacency of the input, which is any order here.
NeighborLists(n) ==
    LET adj == prep.G_undir.adj[n]
    IN  IF Cardinality(adj) = 2 THEN {o \in adj \X adj : o[1] # o[2]} ELSE {}

\* Lines 448-458: the merge the loop body performs for n when its snapshot
\* neighbours are listed as [u, v]; <<>> when it performs none.
MergeOf(n, u, v) ==
    IF n \in prep.G.nodes /\ u # v /\ u \in prep.G.nodes /\ v \in prep.G.nodes
    THEN IF has_edge(prep.G, u, n) /\ has_edge(prep.G, n, v) THEN <<u, n, v>>
         ELSE IF has_edge(prep.G, v, n) /\ has_edge(prep.G, n, u) THEN <<v, n, u>>
         ELSE <<>>
    ELSE <<>>

\* Lines 447-461: the loop body for a node that is not merged.  The list is
\* walked in the order of G.nodes, which is any order here.
VisitSkip(n) ==
    /\ prep.pc = "pass"
    /\ n \in prep.degree_2_nodes
    /\ \A o \in NeighborLists(n) : MergeOf(n, o[1], o[2]) = <<>>
    /\ prep' = [prep EXCEPT !.degree_2_nodes = @ \ {n}]
    /\ UNCHANGED <<enumVars, serverVars>>

\* Lines 447-461: the loop body for a node that is merged away.
VisitMerge(n) ==
    /\ prep.pc = "pass"
    /\ n \in prep.degree_2_nodes
    /\ \E o \in NeighborLists(n) :
         LET m == MergeOf(n, o[1], o[2])
         IN  /\ m # <<>>
             /\ prep' = [prep EXCEPT
                           !.G = remove_node_and_merge(prep.G, m[1], m[2], m[3]),
                           !.degree_2_nodes = @ \ {n},
                           !.removed_in_this_pass = @ + 1]
    /\ UNCHANGED <<enumVars, serverVars>>

\* Lines 463-464 failing: another pass.
NextPass ==
    /\ prep.pc = "pass"
    /\ prep.degree_2_nodes = {}
    /\ prep.removed_in_this_pass # 0
    /\ prep' = [prep EXCEPT !.pc = "simplify"]
    /\ UNCHANGED <<enumVars, serverVars>>

\* Lines 463-464: a pass that removed nothing ends the loop.
LastPass ==
    /\ prep.pc = "pass"
    /\ prep.degree_2_nodes = {}
    /\ prep.removed_in_this_pass = 0
    /\ prep' = [prep EXCEPT !.pc = "cleanup"]
    /\ UNCHANGED <<enumVars, serverVars>>

\* Lines 498-502.
Cleanup ==
    /\ prep.pc = "cleanup"
    /\ prep' = [prep EXCEPT !.pc = "processed", !.G = Cleaned(prep.G),
                            !.processed = Cleaned(prep.G)]
    /\ UNCHANGED <<enumVars, serverVars>>

\* Lines 566, 605, 653: the callers relabel what _process_graph returned.
Relabel ==
    /\ prep.pc = "processed"
    /\ prep' = Stage("relabelled", relabel(prep.G))
    /\ UNCHANGED <<enumVars, serverVars>>

\* _process_graph is entered with one of the graphs (line 472).
InitPrep ==
    /\ EnumOff
    /\ ServerOff
    /\ \E g \in PrepGraphs :
         prep = [pc |-> "prune", input |-> g, G |-> g, roots |-> {},
                 warned |-> FALSE, pruned |-> g, shortest |-> g,
                 processed |-> g, G_undir |-> to_undirected(PEmpty),
                 degree_2_nodes |-> {}, removed_in_this_pass |-> 0]

NextPrep ==
    \/ PruneSkipped
    \/ Prune
    \/ Consolidate
    \/ KeepShortest
    \/ BeginPass
    \/ \E n \in PrepNodes : VisitSkip(n)
    \/ \E n \in PrepNodes : VisitMerge(n)
    \/ NextPass
    \/ LastPass
    \/ Cleanup
    \/ Relabel

\* The preparation of one graph, from the download to the relabelling.
SpecPrep == InitPrep /\ [][NextPrep]_vars

-----------------------------------------------------------------------------
(* Properties of the preparation *)

\* _process_graph has returned.
Processed == prep.pc \in {"processed", "relabelled"}

\* C15: after _process_graph (prune, consolidate, keep shortest edge,
\* degree-2 merge, remove self-loops and isolates) no node of the graph has
\* undirected degree exactly 2, whatever the input graph.
C15_NoDegreeTwo ==
    Processed => \A n \in prep.G.nodes : degree(prep.G, n) # 2

\* C16: after the pipeline there is at most one directed edge per ordered
\* pair of nodes: the parallel-edge reduction leaves one edge of minimum
\* length per pair, and the degree-2 merge, the cleanup and the relabelling
\* add no parallel edge to what it left.
C16_NoParallelEdges ==
    /\ prep.pc \notin {"off", "prune", "consolidate", "keep_shortest"} =>
         \A u, v \in prep.shortest.nodes :
            /\ Cardinality(Between(prep.shortest, u, v)) <= 1
            /\ \A e \in Between(prep.shortest, u, v) :
                 \A f \in Between(prep.pruned, u, v) : e.length <= f.length
    /\ Processed =>
         \A u, v \in prep.G.nodes : Cardinality(Between(prep.G, u, v)) <= 1

\* _prune_graph_biconnected has just returned, having found a large block.
JustPruned == prep.pc = "consolidate" /\ ~prep.warned

\* The simple cycles of g, each as its set of node pairs: every node on the
\* cycle meets exactly two of its pairs, and the pairs hang together.
SimpleCycles(g) ==
    {C \in SUBSET Pairs(g) :
        /\ Cardinality(C) >= 3
        /\ \A n \in UNION C : Cardinality({p \in C : n \in p}) = 2
        /\ ConnectedIn(C, UNION C)}

\* The simple cycles of total edge length >= min_component_length.
LongCycles(g) ==
    {C \in SimpleCycles(g) :
        LET on == SeqOf(C)
        IN  Sum([i \in 1..Len(on) |-> min_length(g, on[i])])
              >= min_component_length}

\* n is an articulation vertex every path between two long cycles runs
\* through.
BetweenLongCycles(g, n) ==
    /\ n \in articulation_points(g)
    /\ \E C1, C2 \in LongCycles(g) :
         /\ n \notin UNION C1 /\ n \notin UNION C2
         /\ (UNION C2) \cap Component(Pairs(g), g.nodes \ {n}, UNION C1) = {}

\* C17, as stated: after biconnected pruning that found a large block, every
\* surviving node lies on a simple cycle of total edge length >=
\* min_component_length, or is an articulation vertex on the path between
\* two such cycles.
C17_OnLongCycle ==
    JustPruned =>
       \A n \in prep.pruned.nodes :
          \/ \E C \in LongCycles(prep.pruned) : n \in UNION C
          \/ BetweenLongCycles(prep.pruned, n)

\* The node x of the block-cut tree lies on the tree path between two large
\* blocks.
BetweenLargeBlocks(bct, x) ==
    \E L1, L2 \in bct.large_set \ {x} :
       /\ L2 \in tree_component(bct, L1)
       /\ L2 \notin Component(bct.edges, bct.nodes \ {x}, {L1})

\* C17, amended: after biconnected pruning that found a large block, every
\* surviving node belongs to a large block (at least three nodes, total edge
\* length >= min_component_length, each node pair counted once) or to a
\* block or cut vertex on the block-cut-tree path between two large blocks.
C17_InOrBetweenLargeBlocks ==
    JustPruned =>
       LET bct == block_cut_tree(prep.input)
       IN  \A n \in prep.pruned.nodes :
              \E x \in bct.nodes :
                 /\ n \in x.set
                 /\ x \in bct.large_set \/ BetweenLargeBlocks(bct, x)

\* A small block between two large ones has been kept, with a node that is
\* on no long cycle, while a dead end and a small block hanging off have
\* been removed.
C17_Witness ==
    /\ JustPruned
    /\ prep.input = PConnector
    /\ prep.pruned.nodes = 0..6
    /\ \A C \in LongCycles(prep.pruned) : 3 \notin UNION C

\* The sets of tree nodes that contain every large block and are connected
\* inside each tree component that has one.
ConnectingSubtrees(bct) ==
    {S \in SUBSET bct.nodes :
        /\ bct.large_set \subseteq S
        /\ \A L \in bct.large_set :
              ConnectedIn(bct.edges, S \cap tree_component(bct, L))}

\* The least of them: the minimal subtree connecting the large blocks.
MinimalSubtree(bct) ==
    CHOOSE S \in ConnectingSubtrees(bct) :
        \A T \in ConnectingSubtrees(bct) : S \subseteq T

\* C18: the node set kept by biconnected pruning is exactly the union of the
\* blocks and articulation vertices on the minimal subtree of the block-cut
\* tree connecting all large blocks of each tree component, and it is the
\* same whichever large block of a component roots the marking walk.
C18_KeptIsMinimalSubtree ==
    JustPruned =>
       LET bct  == block_cut_tree(prep.input)
           kept == UNION {x.set : x \in MinimalSubtree(bct)}
       IN  /\ prep.pruned.nodes = kept
           /\ \A roots \in RootChoices(bct) : valid_nodes(bct, roots) = kept

\* The walk was rooted at the second large triangle of a graph that has two,
\* kept the small block between them and dropped a dead end and a small
\* block hanging off.
C18_Witness ==
    /\ JustPruned
    /\ prep.input = PConnector
    /\ prep.roots = {BlockNode({4, 5, 6})}
    /\ Cardinality(RootChoices(block_cut_tree(prep.input))) = 2
    /\ prep.input.nodes \ prep.pruned.nodes = {7, 8, 9}
    /\ BlockNode({2, 3, 4}) \in MinimalSubtree(block_cut_tree(prep.input))

\* No biconnected component of g has three nodes and the threshold's weight.
NoLargeBlock(g) ==
    \A comp \in biconnected_components(g) :
        ~(Cardinality(comp) >= 3 /\ comp_length(g, comp) >= min_component_length)

\* C19: when the graph has no large block, biconnected pruning only logs a
\* warning and leaves the nodes and edges as they were: it does not empty
\* the graph, and it returns.
C19_NoLargeBlockUnchanged ==
    (prep.pc = "consolidate" /\ NoLargeBlock(prep.input)) =>
       /\ prep.warned
       /\ prep.G = prep.input
       /\ prep.pruned = prep.input
       /\ prep.input.nodes # {} => prep.G.nodes # {}

\* Pruning has returned on a small triangle with a dead end, unchanged.
C19_Witness ==
    /\ prep.pc = "consolidate"
    /\ prep.warned
    /\ prep.input = PSmall
    /\ NoLargeBlock(prep.input)
    /\ prep.G = PSmall

\* C20: preparing a dumbbell (two large triangles joined by a bridge chain
\* of degree-2 nodes) yields 6 nodes and 8 edges: the chain collapses to one
\* edge between the two attachment vertices and each triangle keeps its 3
\* nodes and its 3 edges.
C20_DumbbellPrepared ==
    (prep.pc = "processed" /\ prep.input \in {PDumbbell, PDumbbellOneWay}) =>
       /\ prep.G.nodes = {0, 1, 2, 5, 6, 7}
       /\ has_edge(prep.G, 2, 5) /\ has_edge(prep.G, 5, 2)
       /\ \A t \in {{0, 1, 2}, {5, 6, 7}} :
             Cardinality({e \in prep.G.edges : {e.u, e.v} \subseteq t}) =
             Cardinality({e \in prep.input.edges : {e.u, e.v} \subseteq t})
       /\ prep.input = PDumbbellOneWay => Cardinality(prep.G.edges) = 8

-----------------------------------------------------------------------------
(* Edge-name cleanup: graph_manager.py, _update_edge_names *)

\* A string is the sequence of its characters; the values of an edge
\* attribute are: no such key, None, a string, a list of strings.
Missing == [kind |-> "missing", parts |-> <<>>]

PyNone == [kind |-> "None", parts |-> <<>>]

PyStr(s) == [kind |-> "str", parts |-> <<s>>]

PyList(l) == [kind |-> "list", parts |-> l]

\* str.split(';'): the pieces between the separators, empty ones included.
RECURSIVE split(_)
split(ref_value) ==
    IF \A i \in 1..Len(ref_value) : ref_value[i] # ";"
    THEN <<ref_value>>
    ELSE LET i == CHOOSE j \in 1..Len(ref_value) :
                     /\ ref_value[j] = ";"
                     /\ \A k \in 1..(j - 1) : ref_value[k] # ";"
         IN  <<SubSeq(ref_value, 1, i - 1)>>
             \o split(SubSeq(ref_value, i + 1, Len(ref_value)))

\* Lines 244-263: the loop body, on the attributes of one edge.
update_edge_names(data) ==
    LET names == IF data.ref.kind = "str" /\ data.name.kind = "missing"
                 THEN split(data.ref.parts[1])
                 ELSE <<>>
    IN  [name |-> IF Len(names) = 0 THEN PyNone
                  ELSE IF Len(names) = 1 THEN PyStr(names[1])
                  ELSE PyList(names),
         ref  |-> Missing]

\* The strings of at most MaxRefLen characters over a letter, a digit and
\* the separator.
MaxRefLen == 3

Strings == UNION {[1..n -> {"a", "1", ";"}] : n \in 0..MaxRefLen}

\* The attributes an OSM edge arrives with.
EdgeAttributes ==
    [name : {Missing, PyStr(<<"a">>), PyList(<<(<<"a">>), (<<"1">>)>>)},
     ref  : {Missing} \cup {PyStr(s) : s \in Strings}]

\* Lines 243-263 on a graph of one edge.
UpdateEdgeNames ==
    /\ prep.pc = "update_edge_names"
    /\ prep' = [prep EXCEPT !.pc = "names_updated",
                            !.data = update_edge_names(prep.data)]
    /\ UNCHANGED <<enumVars, serverVars>>

InitNames ==
    /\ EnumOff
    /\ ServerOff
    /\ \E d \in EdgeAttributes :
         prep = [pc |-> "update_edge_names", osm |-> d, data |-> d]

NextNames == UpdateEdgeNames

\* The name cleanup of one downloaded edge (lines 564, 603, 651).
SpecNames == InitNames /\ [][NextNames]_vars

\* The strings of a list joined by the separator.
RECURSIVE Joined(_)
Joined(l) ==
    IF Len(l) = 1 THEN l[1] ELSE l[1] \o <<";">> \o Joined(Tail(l))

\* C21: after the cleanup an edge without a name has its ref split on ';'
\* as its name (a single string for one part, a list for several, None if
\* there is no ref either), an edge with a name has kept that name, and no
\* edge has a ref.
C21_CanonicalName ==
    prep.pc = "names_updated" =>
       /\ prep.data.ref = Missing
       /\ prep.osm.name # Missing => prep.data.name = prep.osm.name
       /\ (prep.osm.name = Missing /\ prep.osm.ref = Missing) =>
             prep.data.name = PyNone
       /\ (prep.osm.name = Missing /\ prep.osm.ref # Missing) =>
             /\ prep.data.name.kind \in {"str", "list"}
             /\ prep.data.name.kind = "str" <=> Len(prep.data.name.parts) = 1
             /\ Joined(prep.data.name.parts) = prep.osm.ref.parts[1]
             /\ \A i \in 1..Len(prep.data.name.parts) :
                   \A j \in 1..Len(prep.data.name.parts[i]) :
                      prep.data.name.parts[i][j] # ";"

-----------------------------------------------------------------------------
(* Properties of the merged edges *)

\* This step of the degree-2 merge splices a node out.
Splices == prep.pc = "pass" /\ prep'.pc = "pass" /\ prep'.G # prep.G

\* C22: when the degree-2 merge splices n out between u and v, both u->v
\* and v->u exist afterwards, each of length length(u,n) + length(n,v), and
\* the geometry stored on v->u is the reverse of the one stored on u->v.
C22_MirrorEdges ==
    [][Splices =>
         \E n \in prep.G.nodes \ prep'.G.nodes :
            \E e, f \in prep'.G.edges \ prep.G.edges :
               /\ {e.u, e.v} = prep.G_undir.adj[n]
               /\ e.u # e.v /\ f.u = e.v /\ f.v = e.u
               /\ has_edge(prep.G, e.u, n) /\ has_edge(prep.G, n, e.v)
               /\ e.length = FirstEdge(prep.G, e.u, n).length
                             + FirstEdge(prep.G, n, e.v).length
               /\ f.length = e.length
               /\ f.geometry = Reversed(e.geometry)]_vars

-----------------------------------------------------------------------------
(* Further properties of the enumerator *)

\* The id at position i from the end of a chain (0 is the last node).
FromEnd(chain, i) == chain[Len(chain) - i].id

\* C23: no frontier entry is created by stepping straight back along the
\* edge just taken: the node of every pushed entry differs from the node of
\* its predecessor's predecessor.
C23_NoImmediateBacktrack ==
    \A e \in queue :
        Len(e.chain) >= 3 => FromEnd(e.chain, 0) # FromEnd(e.chain, 2)

\* An entry whose node has an edge back to the node it came from has just
\* been extended, and its children are in the frontier.
C23_Witness ==
    /\ last.kind = "expand"
    /\ Len(last.entry.chain) >= 2
    /\ FromEnd(last.entry.chain, 1) \in Neighbors(G, FromEnd(last.entry.chain, 0))
    /\ \E e \in queue :
          /\ Len(e.chain) = Len(last.entry.chain) + 1
          /\ SubSeq(e.chain, 1, Len(last.entry.chain)) = last.entry.chain

\* The edge a chain takes into its k-th node.
EdgeInto(chain, k) == EdgeData(G, chain[k - 1].id, chain[k].id)

\* The elements of an edge name: none for None, the string itself, the
\* strings of a list.
Elements(name) == IF name.kind = "none" THEN {} ELSE name.names

\* The places of a chain where the edge in and the edge out share no name.
TurnsAlong(chain) ==
    {k \in 2..(Len(chain) - 1) :
        Elements(EdgeInto(chain, k).name)
          \cap Elements(EdgeInto(chain, k + 1).name) = {}}

\* C24: along every chain of the frontier each extension adds the length of
\* the edge taken to the cumulative distance, and adds 1 to turns exactly
\* when the edge taken and the edge before it share no name element; the
\* first edge out of the start node adds no turn, and turns never decreases
\* along a chain.
C24_TurnsAndDistance ==
    \A e \in queue :
        /\ e.chain[1].dist = 0
        /\ e.dist = Last(e.chain).dist
        /\ \A k \in 2..Len(e.chain) :
              e.chain[k].dist = e.chain[k - 1].dist + EdgeInto(e.chain, k).length
        /\ e.turns = Cardinality(TurnsAlong(e.chain))
        /\ Len(e.chain) = 2 => e.turns = 0

\* A chain over a plain name, a list of names and None, with a turn at one
\* node and none at another.
C24_Witness ==
    \E e \in queue :
        /\ G = GSquare
        /\ Len(e.chain) >= 4
        /\ TurnsAlong(e.chain) # {}
        /\ TurnsAlong(e.chain) # 2..(Len(e.chain) - 1)
        /\ \E k \in 2..Len(e.chain) : EdgeInto(e.chain, k).name.kind = "list"
        /\ \E k \in 2..Len(e.chain) : EdgeInto(e.chain, k).name.kind = "none"

\* The last step popped a candidate (line 423 held for the popped entry).
CandidatePopped ==
    /\ last.kind \notin {"init", "empty", "cap", "too_long", "expand"}
    /\ IsCandidate(last.entry)

\* The places before the end of a chain where its last node occurs, none later.
MostRecentEarlier(chain) ==
    {i \in 1..(Len(chain) - 1) :
        /\ chain[i].id = Last(chain).id
        /\ \A j \in (i + 1)..(Len(chain) - 1) : chain[j].id # Last(chain).id}

\* C25: when a candidate is popped at node c, the loop start L is the most
\* recent earlier occurrence of c on its chain, loop_dist = dist(c) - dist(L)
\* and the total route distance is 2*dist(L) + loop_dist; when L is the start
\* node the loop ratio is exactly 1 (so the ratio is computed, passes every
\* floor up to 1, and the loop is the whole route).
C25_LoopStartAndRatio ==
    CandidatePopped =>
        LET e == last.entry
        IN  \E i \in MostRecentEarlier(e.chain) :
               /\ last.kind = "yield" =>
                     LET r == emitted[Len(emitted)]
                     IN  /\ r.loop_start = e.chain[i].id
                         /\ r.loop_start_dist = e.chain[i].dist
                         /\ r.loop_dist = e.dist - e.chain[i].dist
                         /\ r.total_dist = 2 * e.chain[i].dist + r.loop_dist
               /\ (e.chain[i].id = start_node
                     /\ e.dist - e.chain[i].dist >= params.min_loop_length) =>
                     /\ last.kind \notin {"ZeroDivisionError", "ratio_too_low"}
                     /\ last.kind = "yield" =>
                           emitted[Len(emitted)].loop_dist
                             = emitted[Len(emitted)].total_dist

-----------------------------------------------------------------------------
(* Further properties of the session dispatcher *)

\* The PATH_RECEIVED messages session s was sent for path set id.
PathsReceived(s, id) ==
    {i \in 1..Len(sent[s]) :
        sent[s][i].type = "PATH_RECEIVED" /\ sent[s][i].pathSetId = id}

\* A START_GENERATION handler of session s is between its PATHSET_CREATED and
\* its end.
Generating(s) == sess[s].pc \in {"gen_created", "gen_sent"}

\* C26: for one START_GENERATION the server sends at most num_paths
\* PATH_RECEIVED messages, for every non-negative num_paths, and has pulled
\* no more routes from the enumerator than that.
C26_AtMostNumPaths ==
    \A s \in Sessions :
        Generating(s) =>
            /\ Cardinality(PathsReceived(s, sess[s].path_set_id))
                 <= sess[s].cur.num_paths
            /\ sess[s].pc = "gen_sent" => sess[s].produced <= sess[s].cur.num_paths

-----------------------------------------------------------------------------
(* Further properties of the emitted routes *)

\* Every consecutive pair of a node sequence is joined by an edge of G.
ContiguousWalk(path) ==
    \A i \in 1..(Len(path) - 1) : HasEdge(G, path[i], path[i + 1])

\* C27: the node sequence of every emitted route (the one given to the
\* centroid, elevation profile and GeoJSON steps) is a contiguous walk in the
\* graph, also when the loop start L is not the start node.
C27_RoutesAreWalks ==
    \A k \in 1..Len(emitted) : ContiguousWalk(emitted[k].path)

\* No node occurs twice on the chain, except that its last node may be one
\* that occurred before.
SimpleButLast(chain) ==
    \A i, j \in 1..(Len(chain) - 1) : chain[i].id = chain[j].id => i = j

\* C28: on every chain held in the frontier no node occurs twice, except that
\* the last node may equal exactly one earlier node; so the chain of every
\* emitted route is a simple path from the start to L followed by a simple
\* cycle from L back to c, whatever min_path_length is.
C28_ChainsAreSimple ==
    /\ \A e \in queue : SimpleButLast(e.chain)
    /\ last.kind = "yield" => SimpleButLast(last.entry.chain)

-----------------------------------------------------------------------------
(* Further properties of the prepared graph *)

\* C29: on every graph the preparation pipeline produces, each ordered pair of
\* nodes joined by an edge has an edge with key 0, so that the enumerator's
\* lookup G[u][v][0] never fails.
C29_KeyZeroPresent ==
    prep.pc = "relabelled" =>
        \A e \in prep.G.edges : 0 \in Keys(prep.G, e.u, e.v)

-----------------------------------------------------------------------------
(* The graph of an enumeration *)

\* C30: the graph an enumeration searches is the graph in which its start
\* node was snapped, whatever SWITCH_GRAPH or CREATE_GRAPH does at a
\* suspension point of the handler.
C30_SearchesSnappedGraph ==
    \A s \in Sessions : sess[s].pc = "gen_sent" => sess[s].G = sess[s].start

=============================================================================
